---- MODULE Spec2Model ----
(***************************************************************************)
(* Model of the conversation-session store (app/services/session.py), the  *)
(* streaming response generator (app/services/sse.py), the RAG agent's     *)
(* stream (app/services/rag_agent.py) and the moderation gate of the ask   *)
(* route (app/routes/ask.py).                                              *)
(*                                                                         *)
(* Texts are sequences: questions of characters, chunks and message        *)
(* contents of tokens; the empty text is << >>.  Time is counted in        *)
(* minutes.  The retrieval index (app/services/search.py, index.py) and    *)
(* the sources of the RAG agent are modelled further down.                 *)
(***************************************************************************)
EXTENDS Integers, Sequences, FiniteSets, TLC

(***************************************************************************)
(* Configuration (SessionConfig) and bounds                                *)
(***************************************************************************)
max_messages_per_session == 2

max_total_sessions == 2

session_timeout_minutes == 60

MaxSessionIdLen == 100

\* the clock advances by exactly one timeout, so that an idle time equal to
\* the timeout (not expired) and one above it (expired) both occur
TickMinutes == session_timeout_minutes

\* the clock stops one step past the timeout
MaxNow == session_timeout_minutes + TickMinutes

\* caps of the per-session message counter: a direct caller may overflow a
\* session by one message, a turn (two messages) by two
CallerCountCap == max_messages_per_session + 1

TurnCountCap == max_messages_per_session + 2

\* valid session ids: one more than the store has room for
SessionIds == {1, 2, 3}

\* the empty session id (also: header absent, None)
EmptySid == 0

\* a session id of more than MaxSessionIdLen characters
LongSid == 0 - 1

AllSids == SessionIds \cup {EmptySid, LongSid}

SidLen(sid) ==
    IF sid = EmptySid THEN 0
    ELSE IF sid = LongSid THEN MaxSessionIdLen + 1
    ELSE 1

Roles == {"user", "assistant"}

\* roles a caller may pass to add_message, one of them invalid
CallerRoles == Roles \cup {"system"}

EmptyText == << >>

\* the ValueErrors of get_messages and add_message, by their messages
InvalidSessionId == "ValueError: Invalid session_id"

SessionIdTooLong == "ValueError: session_id too long"

InvalidRole == "ValueError: Invalid role"

EmptyContent == "ValueError: Message content must be a non-empty string"

\* contents a caller may pass to add_message, one of them empty
CallerContents == {EmptyText, <<"m">>}

\* threads calling the store concurrently
Threads == {1, 2}

\* concurrent requests (tasks of the event loop)
Requests == {1, 2}

\* most non-empty chunks the model lets one LLM stream deliver
MaxChunks == 2

\* chunks the LLM stream may deliver, one of them empty
LLMChunks == {EmptyText, <<"a">>}

\* the text the RAG agent yields when generation raised (rag_agent.py:245)
ErrorText == <<"Error generating response">>

\* Questions are sequences of characters.
\* "hello"
Hello == <<"h", "e", "l", "l", "o">>

\* "what did I just ask?"
WhatDidIJustAsk ==
    <<"w", "h", "a", "t", " ", "d", "i", "d", " ", "I", " ", "j", "u", "s", "t", " ", "a", "s", "k", "?">>

\* "what's new with Bitcoin ETFs?"
WhatsNewWithBitcoinEtfs ==
    <<"w", "h", "a", "t", "'", "s", " ", "n", "e", "w", " ", "w", "i", "t", "h", " ", "B", "i", "t", "c", "o", "i", "n", " ", "E", "T", "F", "s", "?">>

\* "What did I ask"
WhatDidIAsk == <<"W", "h", "a", "t", " ", "d", "i", "d", " ", "I", " ", "a", "s", "k">>

\* " Hi"
PaddedHi == <<" ", "H", "i">>

\* "hit"
Hit == <<"h", "i", "t">>

\* "btc etf"
BtcEtf == <<"b", "t", "c", " ", "e", "t", "f">>

\* "and eth?"
AndEth == <<"a", "n", "d", " ", "e", "t", "h", "?">>

\* " crypto"
PaddedCrypto == <<" ", "c", "r", "y", "p", "t", "o">>

\* "Hi"
Hi == <<"H", "i">>

\* five blanks
Blank == <<" ", " ", " ", " ", " ">>

\* QuestionRequest.question: Field(..., min_length=5, max_length=500)
min_length == 5

max_length == 500

\* ModerationService.MAX_QUESTION_LENGTH
MAX_QUESTION_LENGTH == 500

\* "A" * 501, the longest question the performance test sends
TooLong == [i \in 1..(max_length + 1) |-> "A"]

\* questions of the requests: a greeting and an information query
Questions == {Hello, BtcEtf}

\* questions put to should_search
AgentQuestions ==
    {Hello, WhatDidIJustAsk, WhatsNewWithBitcoinEtfs, WhatDidIAsk, PaddedHi, Hit, BtcEtf}

\* result lists the search service may return
SearchResults == {<< >>, <<1>>}

VARIABLES
    sessions,        \* InMemorySessionStorage._sessions: session id -> SessionData
    total_messages,  \* SessionManager._total_messages
    now,             \* datetime.utcnow(), in minutes
    result,          \* exception raised by the latest direct call of the store ("ok": none)
    req,             \* the requests: position in ask_question / generate_sse_response, locals, frames sent
    store,           \* thread-level view of _sessions: session id -> reference to a SessionData object
    heap,            \* thread-level view: the SessionData objects, by reference
    th,              \* the threads calling the store: position in get_messages / add_message, locals
    corpus,          \* the articles table of the database: the ids of its rows
    qdrant,          \* the collection on the Qdrant server: whether it exists, points per article id
    ids_file,        \* data/article_ids_map.pkl: whether it exists, the article ids it maps
    svc,             \* SearchService: vectorstore, article_ids_map, _index_point_count
    last,            \* the latest call of the search or index service: what it did and returned
    ix,              \* thread-level view of the SearchService fields, each with the call that wrote it
    caller,          \* the callers of the SearchService: position in search / load_index / build_index
    lists,           \* the list objects handed out as session_data.messages: reference -> contents
    messages_of,     \* session id -> reference of the list its SessionData.messages is bound to
    held             \* the list get_messages returned to its caller: session id and reference

threadVars == <<store, heap, th>>

\* what the thread-level steps leave alone
seqVars == <<sessions, now, result, req>>

\* the retrieval index, its environment and its callers
\* the message lists as objects, left alone by every step that does not
\* follow them
listVars == <<lists, messages_of, held>>

indexVars == <<corpus, qdrant, ids_file, svc, last, ix, caller, listVars>>

vars == <<sessions, total_messages, now, result, req, store, heap, th,
          corpus, qdrant, ids_file, svc, last, ix, caller,
          lists, messages_of, held>>

\* the session store, the requests and the threads
sessionVars == <<sessions, total_messages, now, result, req, store, heap, th, listVars>>

(***************************************************************************)
(* SessionData and the message types                                       *)
(***************************************************************************)
SessionData(t) ==
    [messages |-> << >>, last_accessed |-> t, message_count |-> 0]

Message(role, content) == [role |-> role, content |-> content]

\* dict assignment  _sessions[sid] = data
save_session(S, sid, data) ==
    [k \in (DOMAIN S) \cup {sid} |-> IF k = sid THEN data ELSE S[k]]

\* del _sessions[sid], when present
delete_session(S, sid) ==
    [k \in (DOMAIN S) \ {sid} |-> S[k]]

get_session_count(S) == Cardinality(DOMAIN S)

(***************************************************************************)
(* cleanup_expired_sessions: the ids found expired at time t, and the      *)
(* store and counter after their removal                                   *)
(***************************************************************************)
RECURSIVE SumCounts(_, _)
SumCounts(S, ids) ==
    IF ids = {} THEN 0
    ELSE LET k == CHOOSE x \in ids : TRUE
         IN  S[k].message_count + SumCounts(S, ids \ {k})

expired_ids(S, t) ==
    {k \in DOMAIN S : (t - S[k].last_accessed) > session_timeout_minutes}

\* a sweep that finds the expired sessions but deletes none
cleanup_removes_nothing(S, T, t) ==
    [sessions |-> S, total |-> T, cleaned |-> Cardinality(expired_ids(S, t))]

\* a sweep that also removes the sessions idle for exactly the timeout
cleanup_at_timeout(S, T, t) ==
    LET ex == {k \in DOMAIN S : (t - S[k].last_accessed) >= session_timeout_minutes}
    IN  [sessions |-> [k \in (DOMAIN S) \ ex |-> S[k]],
         total    |-> T - SumCounts(S, ex),
         cleaned  |-> Cardinality(ex)]

cleanup_expired_sessions(S, T, t) ==
    LET ex == expired_ids(S, t)
    IN  [sessions |-> [k \in (DOMAIN S) \ ex |-> S[k]],
         total    |-> T - SumCounts(S, ex),
         cleaned  |-> Cardinality(ex)]

(***************************************************************************)
(* get_messages: outcome, store and counter after the call                 *)
(***************************************************************************)
\* a get_messages that takes any session id and creates the session
get_messages_unvalidated(S, T, sid, t) ==
    IF sid \notin DOMAIN S
    THEN [outcome |-> "ok", sessions |-> save_session(S, sid, SessionData(t)),
          total |-> T, cleaned |-> 0]
    ELSE [outcome |-> "ok",
          sessions |-> save_session(S, sid, [S[sid] EXCEPT !.last_accessed = t]),
          total |-> T, cleaned |-> 0]

get_messages(S, T, sid, t) ==
    IF SidLen(sid) = 0
    THEN [outcome |-> InvalidSessionId, sessions |-> S, total |-> T, cleaned |-> 0]
    ELSE IF SidLen(sid) > MaxSessionIdLen
    THEN [outcome |-> SessionIdTooLong, sessions |-> S, total |-> T, cleaned |-> 0]
    ELSE IF sid \notin DOMAIN S
    THEN IF get_session_count(S) >= max_total_sessions
         THEN LET c == cleanup_expired_sessions(S, T, t)
              IN  IF get_session_count(c.sessions) >= max_total_sessions
                  THEN [outcome |-> "RuntimeError", sessions |-> c.sessions,
                        total |-> c.total, cleaned |-> c.cleaned]
                  ELSE [outcome |-> "ok",
                        sessions |-> save_session(c.sessions, sid, SessionData(t)),
                        total |-> c.total, cleaned |-> c.cleaned]
         ELSE [outcome |-> "ok",
               sessions |-> save_session(S, sid, SessionData(t)),
               total |-> T, cleaned |-> 0]
    ELSE [outcome |-> "ok",
          sessions |-> save_session(S, sid, [S[sid] EXCEPT !.last_accessed = t]),
          total |-> T, cleaned |-> 0]

(***************************************************************************)
(* add_message                                                             *)
(***************************************************************************)
\* a trim that keeps one message too many
trim_off_by_one(msgs) ==
    IF Len(msgs) > max_messages_per_session + 1
    THEN SubSeq(msgs, Len(msgs) - max_messages_per_session, Len(msgs))
    ELSE msgs

\* a trim that drops the newest messages instead of the oldest
trim_drops_newest(msgs) ==
    IF Len(msgs) > max_messages_per_session
    THEN SubSeq(msgs, 1, max_messages_per_session)
    ELSE msgs

\* the FIFO trim of lines 224-227
trim(msgs) ==
    IF Len(msgs) > max_messages_per_session
    THEN LET excess == Len(msgs) - max_messages_per_session
         IN  SubSeq(msgs, excess + 1, Len(msgs))
    ELSE msgs

\* an add_message that appends whatever role and content it is given
add_message_unvalidated(S, T, sid, role, content, t) ==
    LET g  == IF sid \in DOMAIN S
              THEN [outcome |-> "ok", sessions |-> S, total |-> T]
              ELSE get_messages(S, T, sid, t)
    IN  IF g.outcome # "ok"
        THEN [outcome |-> g.outcome, sessions |-> g.sessions, total |-> g.total]
        ELSE LET d  == g.sessions[sid]
                 d2 == [messages |-> trim(Append(d.messages, Message(role, content))),
                        last_accessed |-> t,
                        message_count |-> d.message_count + 1]
             IN  [outcome |-> "ok",
                  sessions |-> save_session(g.sessions, sid, d2),
                  total |-> g.total + 1]

add_message(S, T, sid, role, content, t) ==
    IF role \notin Roles
    THEN [outcome |-> InvalidRole, sessions |-> S, total |-> T]
    ELSE IF content = EmptyText
    THEN [outcome |-> EmptyContent, sessions |-> S, total |-> T]
    ELSE LET g  == IF sid \in DOMAIN S
                   THEN [outcome |-> "ok", sessions |-> S, total |-> T]
                   ELSE get_messages(S, T, sid, t)
         IN  IF g.outcome # "ok"
             THEN [outcome |-> g.outcome, sessions |-> g.sessions, total |-> g.total]
             ELSE LET d  == g.sessions[sid]
                      d2 == [messages |-> trim(Append(d.messages, Message(role, content))),
                             last_accessed |-> t,
                             message_count |-> d.message_count + 1]
                  IN  [outcome |-> "ok",
                       sessions |-> save_session(g.sessions, sid, d2),
                       total |-> g.total + 1]

(***************************************************************************)
(* clear_session                                                           *)
(***************************************************************************)
\* a clear that empties the whole store
clear_session_all(S, T, sid) ==
    IF sid \in DOMAIN S
    THEN [sessions |-> << >>, total |-> 0]
    ELSE [sessions |-> S, total |-> T]

clear_session(S, T, sid) ==
    IF sid \in DOMAIN S
    THEN [sessions |-> delete_session(S, sid), total |-> T - S[sid].message_count]
    ELSE [sessions |-> S, total |-> T]

\* the counter cap (the counter itself is unbounded): a session takes n more
\* messages while its counter stays within cap
CanCount(S, sid, n, cap) ==
    sid \in DOMAIN S => S[sid].message_count + n <= cap

(***************************************************************************)
(* The store used as a library: one action per call.  result is the        *)
(* exception the latest call raised, "ok" when it returned.                *)
(***************************************************************************)
GetMessagesCall(sid) ==
    LET g == get_messages(sessions, total_messages, sid, now)
    IN  /\ sessions' = g.sessions
        /\ total_messages' = g.total
        /\ result' = g.outcome
        /\ UNCHANGED <<now, req, threadVars, indexVars>>

AddMessageCall(sid, role, content) ==
    /\ CanCount(sessions, sid, 1, CallerCountCap)
    /\ LET a == add_message(sessions, total_messages, sid, role, content, now)
       IN  /\ sessions' = a.sessions
           /\ total_messages' = a.total
           /\ result' = a.outcome
    /\ UNCHANGED <<now, req, threadVars, indexVars>>

ClearSessionCall(sid) ==
    LET c == clear_session(sessions, total_messages, sid)
    IN  /\ sessions' = c.sessions
        /\ total_messages' = c.total
        /\ result' = "ok"
        /\ UNCHANGED <<now, req, threadVars, indexVars>>

CleanupCall ==
    LET c == cleanup_expired_sessions(sessions, total_messages, now)
    IN  /\ sessions' = c.sessions
        /\ total_messages' = c.total
        /\ result' = "ok"
        /\ UNCHANGED <<now, req, threadVars, indexVars>>

Tick ==
    /\ now + TickMinutes <= MaxNow
    /\ now' = now + TickMinutes
    /\ UNCHANGED <<sessions, total_messages, result, req, threadVars, indexVars>>

(***************************************************************************)
(* The message lists as objects.  get_messages returns the list object     *)
(* bound to session_data.messages (session.py line 184); add_message       *)
(* appends to that object in place (line 219) and, when the list exceeds   *)
(* max_messages_per_session, binds session_data.messages to a new list,    *)
(* the slice (line 227).  lists holds the objects still referred to.       *)
(***************************************************************************)
NoList == [sid |-> EmptySid, ref |-> 0]

ListsIdle ==
    /\ lists = << >>
    /\ messages_of = << >>
    /\ held = NoList

\* a reference no list object has: the one after the largest in use
FreshRef(L) == IF DOMAIN L = {} THEN 1 ELSE (CHOOSE r \in DOMAIN L : \A q \in DOMAIN L : q <= r) + 1

\* the bindings of the sessions that are left in S
BoundIn(S, B) == [k \in DOMAIN B \cap DOMAIN S |-> B[k]]

\* the list a caller still holds, while its session is left in S
HeldIn(S, h) == IF h.sid \in DOMAIN S THEN h ELSE NoList

\* the list objects some session or the caller refers to
Referred(L, B, h) ==
    [r \in {q \in DOMAIN L : (\E k \in DOMAIN B : B[k] = q) \/ q = h.ref} |-> L[r]]

\* lines 160-184: get_messages, returning session_data.messages itself
ListGetMessages(sid) ==
    LET g == get_messages(sessions, total_messages, sid, now)
        kept == BoundIn(g.sessions, messages_of)
        created == g.outcome = "ok" /\ sid \notin DOMAIN sessions
        ref == IF created THEN FreshRef(lists) ELSE messages_of[sid]
        bound == IF created THEN kept @@ (sid :> ref) ELSE kept
        objects == IF created THEN lists @@ (ref :> << >>) ELSE lists
        returned == IF g.outcome = "ok" THEN [sid |-> sid, ref |-> ref]
                    ELSE HeldIn(g.sessions, held)
    IN  /\ sessions' = g.sessions
        /\ total_messages' = g.total
        /\ result' = g.outcome
        /\ messages_of' = bound
        /\ held' = returned
        /\ lists' = Referred(objects, bound, returned)
        /\ UNCHANGED <<now, req, threadVars, corpus, qdrant, ids_file, svc, last, ix, caller>>

\* lines 205-234: add_message, appending in place and rebinding on overflow
ListAddMessage(sid, role, content) ==
    /\ CanCount(sessions, sid, 1, CallerCountCap)
    /\ LET a == add_message(sessions, total_messages, sid, role, content, now)
           kept == BoundIn(a.sessions, messages_of)
           created == a.outcome = "ok" /\ sid \notin DOMAIN sessions
           ref == IF created THEN FreshRef(lists) ELSE messages_of[sid]
           appended == (IF created THEN << >> ELSE lists[ref]) \o <<Message(role, content)>>
           excess == Len(appended) - max_messages_per_session
           in_place == (ref :> appended) @@ lists
           slice == FreshRef(in_place)
           objects == IF excess > 0
                      THEN in_place @@ (slice :> SubSeq(appended, excess + 1, Len(appended)))
                      ELSE in_place
           bound == (sid :> (IF excess > 0 THEN slice ELSE ref)) @@ kept
           holding == HeldIn(a.sessions, held)
       IN  /\ sessions' = a.sessions
           /\ total_messages' = a.total
           /\ result' = a.outcome
           /\ held' = holding
           /\ IF a.outcome = "ok"
              THEN /\ messages_of' = bound
                   /\ lists' = Referred(objects, bound, holding)
              ELSE /\ messages_of' = kept
                   /\ lists' = Referred(lists, kept, holding)
    /\ UNCHANGED <<now, req, threadVars, corpus, qdrant, ids_file, svc, last, ix, caller>>

\* time passes
ListTick ==
    /\ Tick
    /\ UNCHANGED listVars


(***************************************************************************)
(* RAGAgentService.should_search, on questions as sequences of characters: *)
(* the question is lowered and stripped; no search when it contains one of *)
(* the conversation keywords or starts with one of the greetings           *)
(***************************************************************************)
\* str.lower, on the letters
LowerOf ==
    [c \in {"A", "B", "C", "D", "E", "F", "G", "H", "I", "J", "K", "L", "M", "N", "O", "P", "Q", "R", "S", "T", "U", "V", "W", "X", "Y", "Z"} |->
        CASE c = "A" -> "a"
          [] c = "B" -> "b"
          [] c = "C" -> "c"
          [] c = "D" -> "d"
          [] c = "E" -> "e"
          [] c = "F" -> "f"
          [] c = "G" -> "g"
          [] c = "H" -> "h"
          [] c = "I" -> "i"
          [] c = "J" -> "j"
          [] c = "K" -> "k"
          [] c = "L" -> "l"
          [] c = "M" -> "m"
          [] c = "N" -> "n"
          [] c = "O" -> "o"
          [] c = "P" -> "p"
          [] c = "Q" -> "q"
          [] c = "R" -> "r"
          [] c = "S" -> "s"
          [] c = "T" -> "t"
          [] c = "U" -> "u"
          [] c = "V" -> "v"
          [] c = "W" -> "w"
          [] c = "X" -> "x"
          [] c = "Y" -> "y"
          [] c = "Z" -> "z"]

lower(text) ==
    [i \in 1..Len(text) |-> IF text[i] \in DOMAIN LowerOf THEN LowerOf[text[i]] ELSE text[i]]

\* str.strip: leading and trailing blanks removed
RECURSIVE lstrip(_)
lstrip(text) ==
    IF text # << >> /\ Head(text) = " " THEN lstrip(Tail(text)) ELSE text

RECURSIVE rstrip(_)
rstrip(text) ==
    IF text # << >> /\ text[Len(text)] = " "
    THEN rstrip(SubSeq(text, 1, Len(text) - 1)) ELSE text

strip(text) == rstrip(lstrip(text))

\* str.startswith
StartsWith(text, prefix) ==
    /\ Len(prefix) <= Len(text)
    /\ SubSeq(text, 1, Len(prefix)) = prefix

\* the in operator of str: prefix occurs somewhere in text
Contains(text, part) ==
    \E i \in 1..(Len(text) - Len(part) + 1) :
        SubSeq(text, i, i + Len(part) - 1) = part

conversation_keywords ==
    {<<"w", "h", "a", "t", " ", "q", "u", "e", "s", "t", "i", "o", "n", " ", "d", "i", "d", " ", "i">>,
     <<"w", "h", "a", "t", " ", "d", "i", "d", " ", "i", " ", "a", "s", "k">>,
     <<"w", "h", "a", "t", " ", "d", "i", "d", " ", "y", "o", "u", " ", "s", "a", "y">>,
     <<"t", "e", "l", "l", " ", "m", "e", " ", "m", "o", "r", "e", " ", "a", "b", "o", "u", "t", " ", "t", "h", "a", "t">>,
     <<"t", "h", "a", "t", " ", "a", "r", "t", "i", "c", "l", "e">>,
     <<"y", "o", "u", " ", "m", "e", "n", "t", "i", "o", "n", "e", "d">>,
     <<"y", "o", "u", " ", "s", "a", "i", "d">>}

greetings ==
    {<<"h", "e", "l", "l", "o">>,
     <<"h", "i">>,
     <<"h", "e", "y">>,
     <<"h", "o", "w", " ", "a", "r", "e", " ", "y", "o", "u">>,
     <<"g", "o", "o", "d", " ", "m", "o", "r", "n", "i", "n", "g">>,
     <<"g", "o", "o", "d", " ", "a", "f", "t", "e", "r", "n", "o", "o", "n">>,
     <<"g", "o", "o", "d", " ", "e", "v", "e", "n", "i", "n", "g">>}

should_search(question) ==
    LET question_lower == strip(lower(question))
    IN  /\ ~ (\E keyword \in conversation_keywords : Contains(question_lower, keyword))
        /\ ~ (\E greeting \in greetings : StartsWith(question_lower, greeting))

(***************************************************************************)
(* Frames of the stream (sse.py lines 62, 76, 92, 96)                      *)
(***************************************************************************)
SourcesFrame(docs) == [type |-> "sources", data |-> docs]

ContentFrame(chunk) == [type |-> "content", data |-> chunk]

DoneFrame == [type |-> "done", data |-> << >>]

ErrorFrame(e) == [type |-> "error", data |-> <<e>>]

IsTerminal(f) == f.type \in {"done", "error"}

\* a generator that never sends the sources
sources_event_omitted(articles_data) == << >>

\* lines 61-64: what the generator yields once the sources are known
sources_event(articles_data) == <<SourcesFrame(articles_data)>>

\* a failure of persistence reported as text, the way rag_agent.py line 245
\* reports a failure of generation
closing_frame_as_content(outcome) ==
    IF outcome = "ok" THEN DoneFrame ELSE ContentFrame(<<outcome>>)

\* lines 91-96: the frame that closes the stream, given what persistence raised
closing_frame(outcome) ==
    IF outcome = "ok" THEN DoneFrame ELSE ErrorFrame(outcome)

IdleRequest ==
    [pc |-> "idle", question |-> EmptyText, session_id |-> EmptySid,
     frames |-> << >>, full_response |-> EmptyText, chunk_count |-> 0,
     search_calls |-> 0, llm_invoked |-> FALSE, is_safe |-> TRUE]

(***************************************************************************)
(* ask_question: the moderation gate.  A question found not safe is        *)
(* rejected with HTTP 400; otherwise the streaming response is returned    *)
(* and its generator starts when the server iterates it.                   *)
(***************************************************************************)
\* a gate that ignores the verdict
moderation_gate_open(is_safe) == "start"

\* lines 165-167: where the request goes after the moderation verdict
moderation_gate(is_safe) == IF ~ is_safe THEN "rejected" ELSE "start"

\* a request schema without length bounds
QuestionRequest_unbounded(question) == "ok"

\* schemas.py line 6: the validation of the request body, which FastAPI runs
\* before ask_question; a violation is answered with HTTP 422
QuestionRequest(question) ==
    IF Len(question) < min_length THEN "string_too_short"
    ELSE IF Len(question) > max_length THEN "string_too_long"
    ELSE "ok"

\* moderation.py lines 60-106: is_safe.  verdict: the spam patterns and the
\* toxicity models flag nothing
is_safe(text, verdict) ==
    IF text = EmptyText \/ strip(text) = EmptyText THEN FALSE
    ELSE IF Len(text) > MAX_QUESTION_LENGTH THEN FALSE
    ELSE verdict

AskQuestion(r, question, sid, verdict) ==
    /\ req[r].pc = "idle"
    /\ req' = [req EXCEPT ![r] =
                 IF QuestionRequest(question) # "ok"
                 THEN [@ EXCEPT !.pc = QuestionRequest(question)]
                 ELSE IF moderation_gate(is_safe(question, verdict)) = "rejected"
                 THEN [@ EXCEPT !.pc = "rejected", !.is_safe = is_safe(question, verdict)]
                 ELSE [@ EXCEPT !.pc = "start", !.question = question,
                                !.session_id = sid,
                                !.is_safe = is_safe(question, verdict)]]
    /\ UNCHANGED <<sessions, total_messages, now, result, threadVars, indexVars>>

(***************************************************************************)
(* generate_sse_response, lines 38-64: history lookup, sources, up to the  *)
(* yield of the sources frame.  search_failed: search raised, which        *)
(* get_search_results_for_sources turns into an empty list.                *)
(***************************************************************************)
\* an agent that queries the index for every question
index_queries_unguarded(question) == 1

\* rag_agent.py lines 262-267 and 190-195: the index is queried, once, only
\* when should_search says so
index_queries(question) == IF should_search(question) THEN 1 ELSE 0

\* a search whose exception reaches its caller
search_outcome_uncaught(search_failed) ==
    IF search_failed THEN "Error during search" ELSE "ok"

\* search.py lines 342-344 and rag_agent.py lines 286-288: an exception of
\* the search is caught and logged; its caller sees no exception
search_outcome(search_failed) == "ok"

StreamStart(r, docs, search_failed) ==
    /\ req[r].pc = "start"
    /\ LET q   == req[r].question
           sid == req[r].session_id
           g   == IF sid # EmptySid
                  THEN get_messages(sessions, total_messages, sid, now)
                  ELSE [outcome |-> "ok", sessions |-> sessions,
                        total |-> total_messages, cleaned |-> 0]
           searching == should_search(q)
           articles_data == IF searching /\ ~ search_failed THEN docs ELSE << >>
       IN  /\ sessions' = g.sessions
           /\ total_messages' = g.total
           /\ IF g.outcome # "ok"
              THEN req' = [req EXCEPT ![r].pc = "failed",
                                      ![r].frames = Append(@, ErrorFrame(g.outcome))]
              ELSE IF searching /\ search_outcome(search_failed) # "ok"
              THEN req' = [req EXCEPT
                             ![r].pc = "failed",
                             ![r].search_calls = @ + 1,
                             ![r].frames = Append(@, ErrorFrame(search_outcome(search_failed)))]
              ELSE /\ searching \/ (docs = << >> /\ ~ search_failed)
                   /\ req' = [req EXCEPT
                                ![r].pc = "sources",
                                ![r].search_calls = @ + index_queries(q),
                                ![r].frames = @ \o sources_event(articles_data)]
    /\ UNCHANGED <<now, result, threadVars, indexVars>>

(***************************************************************************)
(* lines 66-71 with generate_streaming_response lines 177-239: resumed     *)
(* after the sources frame, the generator searches again (when             *)
(* should_search) and opens the LLM stream                                 *)
(***************************************************************************)
GenStart(r) ==
    /\ req[r].pc = "sources"
    /\ req' = [req EXCEPT
                 ![r].pc = "streaming",
                 ![r].search_calls = @ + index_queries(req[r].question),
                 ![r].llm_invoked = TRUE]
    /\ UNCHANGED <<sessions, total_messages, now, result, threadVars, indexVars>>

(***************************************************************************)
(* The LLM stream delivers a chunk: rag_agent.py lines 239-241 pass it on  *)
(* when it is not empty, sse.py lines 72-77 forward it as a content frame  *)
(***************************************************************************)
\* an accumulation that puts the newest chunk first
accumulate_newest_first(full_response, chunk) == chunk \o full_response

\* sse.py line 74: full_response += chunk
accumulate(full_response, chunk) == full_response \o chunk

LLMChunk(r, chunk) ==
    /\ req[r].pc = "streaming"
    /\ req[r].chunk_count < MaxChunks
    /\ req' = [req EXCEPT
                 ![r].chunk_count = IF chunk # EmptyText THEN @ + 1 ELSE @,
                 ![r].full_response = IF chunk # EmptyText THEN accumulate(@, chunk) ELSE @,
                 ![r].frames = IF chunk # EmptyText
                               THEN Append(@, ContentFrame(chunk)) ELSE @]
    /\ UNCHANGED <<sessions, total_messages, now, result, threadVars, indexVars>>

(***************************************************************************)
(* The LLM stream raises: rag_agent.py lines 243-245 catch the exception   *)
(* and yield its text as one more chunk, after which the agent's generator *)
(* is exhausted; sse.py forwards the chunk like any other                  *)
(***************************************************************************)
LLMError(r) ==
    /\ req[r].pc = "streaming"
    /\ req' = [req EXCEPT
                 ![r].pc = "exhausted",
                 ![r].chunk_count = @ + 1,
                 ![r].full_response = accumulate(@, ErrorText),
                 ![r].frames = Append(@, ContentFrame(ErrorText))]
    /\ UNCHANGED <<sessions, total_messages, now, result, threadVars, indexVars>>

\* a persistence step put off until the stream has ended
persist_turn_deferred(S, T, sid, question, full_response, t) ==
    [outcome |-> "ok", sessions |-> S, total |-> T]

\* a persistence step that appends the assistant text before the question
persist_turn_assistant_first(S, T, sid, question, full_response, t) ==
    IF sid # EmptySid /\ full_response # EmptyText
    THEN LET a1 == add_message(S, T, sid, "assistant", full_response, t)
         IN  IF a1.outcome # "ok" THEN a1
             ELSE add_message(a1.sessions, a1.total, sid, "user", question, t)
    ELSE [outcome |-> "ok", sessions |-> S, total |-> T]

\* a persistence step that does not look at full_response
persist_turn_unchecked(S, T, sid, question, full_response, t) ==
    IF sid # EmptySid
    THEN LET a1 == add_message(S, T, sid, "user", question, t)
         IN  IF a1.outcome # "ok" THEN a1
             ELSE add_message(a1.sessions, a1.total, sid, "assistant", full_response, t)
    ELSE [outcome |-> "ok", sessions |-> S, total |-> T]

(***************************************************************************)
(* sse.py lines 81-89: the persistence step                                *)
(***************************************************************************)
persist_turn(S, T, sid, question, full_response, t) ==
    IF sid # EmptySid /\ full_response # EmptyText
    THEN LET a1 == add_message(S, T, sid, "user", question, t)
         IN  IF a1.outcome # "ok" THEN a1
             ELSE LET a2 == add_message(a1.sessions, a1.total, sid,
                                        "assistant", full_response, t)
                  IN  IF a2.outcome # "ok" THEN a2
                      ELSE LET g == get_messages(a2.sessions, a2.total, sid, t)
                           IN  [outcome |-> g.outcome, sessions |-> g.sessions,
                                total |-> g.total]
    ELSE [outcome |-> "ok", sessions |-> S, total |-> T]

(***************************************************************************)
(* The agent's stream is exhausted: sse.py lines 79-96 persist the turn    *)
(* and send the done sentinel, or the error frame when persistence raised  *)
(***************************************************************************)
StreamEnd(r) ==
    /\ req[r].pc \in {"streaming", "exhausted"}
    /\ CanCount(sessions, req[r].session_id, 2, TurnCountCap)
    /\ LET p == persist_turn(sessions, total_messages, req[r].session_id,
                             req[r].question, req[r].full_response, now)
       IN  /\ sessions' = p.sessions
           /\ total_messages' = p.total
           /\ req' = [req EXCEPT
                        ![r].pc = IF p.outcome = "ok" THEN "done" ELSE "failed",
                        ![r].frames = Append(@, closing_frame(p.outcome))]
    /\ UNCHANGED <<now, result, threadVars, indexVars>>

(***************************************************************************)
(* The client disconnects while the generator is suspended (at a yield or  *)
(* awaiting the LLM): the cancellation is not an Exception, so neither the *)
(* except clause of rag_agent.py line 243 nor that of sse.py line 94       *)
(* catches it, and the generator ends there                                *)
(***************************************************************************)
Cancel(r) ==
    /\ req[r].pc \in {"sources", "streaming", "exhausted"}
    /\ req' = [req EXCEPT ![r].pc = "cancelled"]
    /\ UNCHANGED <<sessions, total_messages, now, result, threadVars, indexVars>>

(***************************************************************************)
(* The retrieval index: SearchService (app/services/search.py), the index  *)
(* builder IndexService (app/services/index.py) and their environment: the *)
(* articles table, the Qdrant collection and the pickled id map.           *)
(* Scores are counted in twelfths: One is the score 1.0.                   *)
(***************************************************************************)
ArticleIds == {1, 2}

\* most points the model lets the collection hold for one article
MaxCopies == 2

\* the score 1.0 (search.py line 321), in twelfths
One == 12

\* similarity_threshold of the settings (0.3), in tenths
similarity_threshold == 3

\* None, as the value of a point count
NoCount == 0 - 1

\* None, as the id found in a document's metadata
NoArticleId == 0

\* None, as a date filter
NoDate == 0

\* Article.created_at and Article.published_date, as day numbers
created_at(a) == 1

published_date(a) == a

RECURSIVE SumPoints(_, _)
SumPoints(points, ids) ==
    IF ids = {} THEN 0
    ELSE LET a == CHOOSE x \in ids : TRUE
         IN  points[a] + SumPoints(points, ids \ {a})

\* collection_info.points_count
points_count(q) == SumPoints(q.points, ArticleIds)

NoCollection == [exists |-> FALSE, points |-> [a \in ArticleIds |-> 0]]

\* SearchService.__init__: nothing loaded.  ready records that a load or a
\* build has completed on this instance.
NewService ==
    [vectorstore |-> FALSE, article_ids_map |-> {}, index_point_count |-> NoCount,
     ready |-> FALSE]

\* lines 141-153: the live point count, None when the server does not answer
\* or has no such collection (the exception is caught)
get_collection_point_count(q, answers) ==
    IF answers /\ q.exists THEN points_count(q) ELSE NoCount

\* lines 155-166
should_reload_index(S, q, answers) ==
    IF ~ S.vectorstore \/ S.index_point_count = NoCount
    THEN TRUE
    ELSE LET current_point_count == get_collection_point_count(q, answers)
         IN  IF current_point_count = NoCount THEN FALSE
             ELSE current_point_count # S.index_point_count

\* what the server and the file system do during one load_index
AllOk == [collections_ok |-> TRUE, open_ok |-> TRUE, pickle_ok |-> TRUE, count_ok |-> TRUE]

\* all goes well, or one of the four calls fails
LoadEnvs ==
    {AllOk,
     [AllOk EXCEPT !.collections_ok = FALSE],
     [AllOk EXCEPT !.open_ok = FALSE],
     [AllOk EXCEPT !.pickle_ok = FALSE],
     [AllOk EXCEPT !.count_ok = FALSE]}

\* a load_index whose failures are not caught
load_index_uncaught(S, q, f, env) ==
    IF ~ env.collections_ok \/ ~ q.exists \/ ~ env.open_ok
       \/ (f.exists /\ ~ env.pickle_ok)
    THEN [ok |-> FALSE, svc |-> S, live |-> NoCount, raised |-> TRUE]
    ELSE LET live == get_collection_point_count(q, env.count_ok)
         IN  [ok |-> TRUE,
              svc |-> [vectorstore |-> TRUE,
                       article_ids_map |-> IF f.exists THEN f.ids ELSE S.article_ids_map,
                       index_point_count |-> live, ready |-> TRUE],
              live |-> live, raised |-> FALSE]

\* lines 168-247: load_index.  Every exception is caught and makes the load
\* return False, with the fields assigned so far kept.
load_index(S, q, f, env) ==
    IF ~ env.collections_ok
    THEN [ok |-> FALSE, svc |-> S, live |-> NoCount, raised |-> FALSE]
    ELSE IF ~ q.exists
    THEN [ok |-> FALSE, svc |-> S, live |-> NoCount, raised |-> FALSE]
    ELSE IF ~ env.open_ok
    THEN [ok |-> FALSE, svc |-> S, live |-> NoCount, raised |-> FALSE]
    ELSE LET S1 == [S EXCEPT !.vectorstore = TRUE]
         IN  IF f.exists /\ ~ env.pickle_ok
             THEN [ok |-> FALSE, svc |-> S1, live |-> NoCount, raised |-> FALSE]
             ELSE LET S2 == IF f.exists
                            THEN [S1 EXCEPT !.article_ids_map = f.ids] ELSE S1
                      live == get_collection_point_count(q, env.count_ok)
                  IN  [ok |-> TRUE,
                       svc |-> [S2 EXCEPT !.index_point_count = live, !.ready = TRUE],
                       live |-> live, raised |-> FALSE]

(***************************************************************************)
(* The ranking of search, lines 279-344.  A candidate is the article id of *)
(* a document's metadata with its raw score; db is the set of article ids  *)
(* the database holds.                                                     *)
(***************************************************************************)
Candidate(id, score) == [id |-> id, score |-> score]

MinOf(a, b) == IF a <= b THEN a ELSE b

\* lines 319-323
normalized_score(score, best_score) ==
    IF best_score > 0
    THEN MinOf(One, (score * One) \div best_score)
    ELSE score

\* a loop that does not look at seen_article_ids
collect_with_duplicates(candidates, i, best_score, db, date_filter, seen, results) ==
    [k \in 1..Len(candidates) |->
        [id |-> candidates[k].id,
         score |-> normalized_score(candidates[k].score, best_score)]]

\* lines 298-326: the loop over the candidates, from the i-th on
RECURSIVE collect(_, _, _, _, _, _, _)
collect(candidates, i, best_score, db, date_filter, seen, results) ==
    IF i > Len(candidates) THEN results
    ELSE LET article_id == candidates[i].id
             skip == \/ article_id = NoArticleId
                     \/ article_id \in seen
                     \/ article_id \notin db
                     \/ (date_filter # NoDate /\ published_date(article_id) < date_filter)
         IN  IF skip
             THEN collect(candidates, i + 1, best_score, db, date_filter, seen, results)
             ELSE collect(candidates, i + 1, best_score, db, date_filter,
                          seen \cup {article_id},
                          Append(results,
                                 [id |-> article_id,
                                  score |-> normalized_score(candidates[i].score,
                                                             best_score)]))

\* the sort key of lines 332-336, compared: x goes strictly before y
KeyBefore(x, y) ==
    \/ x.score > y.score
    \/ /\ x.score = y.score
       /\ \/ created_at(x.id) > created_at(y.id)
          \/ /\ created_at(x.id) = created_at(y.id)
             /\ published_date(x.id) > published_date(y.id)

\* list.sort is stable: x is put after every element that does not go
\* strictly after it
RECURSIVE InsertSorted(_, _)
InsertSorted(sorted, x) ==
    IF sorted = << >> THEN <<x>>
    ELSE IF KeyBefore(x, Head(sorted)) THEN <<x>> \o sorted
    ELSE <<Head(sorted)>> \o InsertSorted(Tail(sorted), x)

RECURSIVE sort(_)
sort(results) ==
    IF results = << >> THEN << >>
    ELSE InsertSorted(sort(SubSeq(results, 1, Len(results) - 1)), results[Len(results)])

Take(seq, n) == IF Len(seq) > n THEN SubSeq(seq, 1, n) ELSE seq

rank(candidates, db, top_k, date_filter) ==
    LET best_score == IF candidates # << >> THEN candidates[1].score ELSE One
    IN  Take(sort(collect(candidates, 1, best_score, db, date_filter, {}, << >>)), top_k)

\* sequences of at most n candidates over the given ids and scores
Windows(ids, scores, n) ==
    UNION {[1..m -> {Candidate(a, s) : a \in ids, s \in scores}] : m \in 0..n}

\* a window the vector store can answer with: at most k candidates, each
\* article at most as often as it has points in the collection
CanAnswer(q, window, k) ==
    /\ Len(window) <= k
    /\ \A a \in ArticleIds :
          Cardinality({i \in 1..Len(window) : window[i].id = a}) <= q.points[a]

(***************************************************************************)
(* search, lines 267-344: staleness check, reload, retrieval, ranking.     *)
(* check_ok and env say what the server answers; window is the answer of   *)
(* the vector store.  The result tells what the call did.                  *)
(***************************************************************************)
search(S, q, f, db, top_k, date_filter, check_ok, env, window) ==
    LET reload == should_reload_index(S, q, check_ok)
        l  == IF reload THEN load_index(S, q, f, env)
              ELSE [ok |-> FALSE, svc |-> S, live |-> NoCount, raised |-> FALSE]
        S1 == l.svc
        live_at_check == get_collection_point_count(q, check_ok)
        mismatch == /\ S.vectorstore /\ S.index_point_count # NoCount
                    /\ live_at_check # NoCount
                    /\ live_at_check # S.index_point_count
        k  == MinOf(top_k * 2, Cardinality(S1.article_ids_map))
        served == ~ l.raised /\ S1.vectorstore /\ q.exists
    IN  [svc |-> S1, reloaded |-> reload, load_ok |-> l.ok, mismatch |-> mismatch,
         live |-> l.live, raised |-> l.raised, served |-> served, k |-> k,
         results |-> IF served THEN rank(Take(window, k), db, top_k, date_filter) ELSE << >>]

\* top_k values of the callers
TopKs == {1, 2}

\* raw scores of the vector store in the index model: 0.5 and 1.0
IndexScores == {6, 12}

LastNone ==
    [op |-> "none", reloaded |-> FALSE, load_ok |-> FALSE, mismatch |-> FALSE,
     served |-> FALSE, fresh |-> FALSE, live |-> NoCount, results |-> << >>,
     raised |-> FALSE]

\* search as the RAG agent calls it (rag_agent.py lines 27 and 267): no date filter
SearchCall(top_k, check_ok, env, window) ==
    /\ LET r == search(svc, qdrant, ids_file, corpus, top_k, NoDate, check_ok, env, window)
       IN  /\ CanAnswer(qdrant, window, r.k)
           /\ svc' = r.svc
           /\ last' = [op |-> "search", reloaded |-> r.reloaded, load_ok |-> r.load_ok,
                       mismatch |-> r.mismatch, served |-> r.served,
                       fresh |-> ~ svc.ready, live |-> r.live, results |-> r.results,
                       raised |-> r.raised]
    /\ UNCHANGED <<corpus, qdrant, ids_file, ix, caller>>
    /\ UNCHANGED sessionVars

\* load_index called on its own (the startup handler, main.py line 47)
LoadIndexCall(env) ==
    /\ LET l == load_index(svc, qdrant, ids_file, env)
       IN  /\ svc' = l.svc
           /\ last' = [LastNone EXCEPT !.op = "load_index", !.reloaded = TRUE,
                                       !.load_ok = l.ok, !.live = l.live,
                                       !.fresh = ~ svc.ready, !.raised = l.raised]
    /\ UNCHANGED <<corpus, qdrant, ids_file, ix, caller>>
    /\ UNCHANGED sessionVars

\* QdrantVectorStore.from_documents: the collection is created when absent,
\* and one point is added for each document
from_documents(q, documents) ==
    [exists |-> TRUE,
     points |-> [a \in ArticleIds |-> IF a \in documents THEN q.points[a] + 1
                                      ELSE q.points[a]]]

\* the collection has room (in the model) for one more point per document
HasRoom(q, documents) == \A a \in documents : q.points[a] < MaxCopies

\* search.py lines 113-127: what SearchService.build_index does to the collection
build_collection(q, documents) == from_documents(q, documents)

\* index.py lines 127-146: what IndexService.build_index does to the collection
index_build_collection(q, documents, recreate) ==
    from_documents(IF recreate THEN NoCollection ELSE q, documents)

\* SearchService.build_index, lines 64-139
BuildIndexCall(sparse_ok, count_ok) ==
    /\ HasRoom(qdrant, corpus)
    /\ IF ~ sparse_ok
       THEN /\ last' = [LastNone EXCEPT !.op = "build_index", !.raised = TRUE]
            /\ UNCHANGED <<svc, qdrant, ids_file>>
       ELSE IF corpus = {}
       THEN /\ last' = [LastNone EXCEPT !.op = "build_index"]
            /\ UNCHANGED <<svc, qdrant, ids_file>>
       ELSE LET q2 == build_collection(qdrant, corpus)
            IN  /\ qdrant' = q2
                /\ ids_file' = [exists |-> TRUE, ids |-> corpus]
                /\ svc' = [vectorstore |-> TRUE, article_ids_map |-> corpus,
                           index_point_count |-> get_collection_point_count(q2, count_ok),
                           ready |-> TRUE]
                /\ last' = [LastNone EXCEPT !.op = "build_index", !.load_ok = TRUE]
    /\ UNCHANGED <<corpus, ix, caller>>
    /\ UNCHANGED sessionVars

\* IndexService.build_index, lines 85-147
IndexServiceBuildCall(sparse_ok, recreate) ==
    /\ HasRoom(IF recreate THEN NoCollection ELSE qdrant, corpus)
    /\ IF ~ sparse_ok
       THEN /\ last' = [LastNone EXCEPT !.op = "index_build", !.raised = TRUE]
            /\ UNCHANGED qdrant
       ELSE IF corpus = {}
       THEN /\ last' = [LastNone EXCEPT !.op = "index_build"]
            /\ UNCHANGED qdrant
       ELSE /\ qdrant' = index_build_collection(qdrant, corpus, recreate)
            /\ last' = [LastNone EXCEPT !.op = "index_build", !.load_ok = TRUE]
    /\ UNCHANGED <<corpus, ids_file, svc, ix, caller>>
    /\ UNCHANGED sessionVars

\* the ingestion adds an article to the database
AddArticle(a) ==
    /\ a \notin corpus
    /\ corpus' = corpus \cup {a}
    /\ last' = [LastNone EXCEPT !.op = "add_article"]
    /\ UNCHANGED <<qdrant, ids_file, svc, ix, caller>>
    /\ UNCHANGED sessionVars

(***************************************************************************)
(* get_search_results_for_sources, rag_agent.py lines 262-288: no search   *)
(* when should_search says so; otherwise the results of search, once more  *)
(* deduplicated by article id                                              *)
(***************************************************************************)
RECURSIVE articles_data(_, _, _)
articles_data(search_results, i, seen_ids) ==
    IF i > Len(search_results) THEN << >>
    ELSE IF search_results[i].id \in seen_ids
    THEN articles_data(search_results, i + 1, seen_ids)
    ELSE <<[id |-> search_results[i].id, similarity_score |-> search_results[i].score]>>
         \o articles_data(search_results, i + 1, seen_ids \cup {search_results[i].id})

get_search_results_for_sources(question, search_results) ==
    IF ~ should_search(question) THEN << >>
    ELSE articles_data(search_results, 1, {})

(***************************************************************************)
(* RAGAgentService._improve_query, rag_agent.py lines 72-94: the question  *)
(* is stripped, and each abbreviation found in it (whatever its case) is   *)
(* replaced, where it stands in lower case, by the full name               *)
(***************************************************************************)
\* str.replace: every occurrence of old, from the left, none overlapping
RECURSIVE replace(_, _, _)
replace(text, old, new) ==
    IF Len(text) < Len(old) THEN text
    ELSE IF SubSeq(text, 1, Len(old)) = old
    THEN new \o replace(SubSeq(text, Len(old) + 1, Len(text)), old, new)
    ELSE <<Head(text)>> \o replace(Tail(text), old, new)

\* the dict of lines 79-83, in its order
abbreviations ==
    << [abbr |-> <<"b", "t", "c">>, full |-> <<"B", "i", "t", "c", "o", "i", "n">>],
       [abbr |-> <<"e", "t", "h">>, full |-> <<"E", "t", "h", "e", "r", "e", "u", "m">>],
       [abbr |-> <<"c", "r", "y", "p", "t", "o">>,
        full |-> <<"c", "r", "y", "p", "t", "o", "c", "u", "r", "r", "e", "n", "c", "y">>] >>

\* the loop of lines 85-87, from the i-th abbreviation on
RECURSIVE expand(_, _)
expand(improved, i) ==
    IF i > Len(abbreviations) THEN improved
    ELSE IF Contains(lower(improved), lower(abbreviations[i].abbr))
    THEN expand(replace(improved, abbreviations[i].abbr, abbreviations[i].full), i + 1)
    ELSE expand(improved, i + 1)

improve_query(original_query) == expand(strip(original_query), 1)

(***************************************************************************)
(* RAGAgentService.generate_streaming_response, rag_agent.py lines         *)
(* 177-236: whether it searches, the query it searches with, and the       *)
(* message list it hands to the LLM                                        *)
(***************************************************************************)
SystemPrompt == [kind |-> "system_prompt"]

ContextMessage(search_documents) == [kind |-> "context", documents |-> search_documents]

HumanQuestion(question) == [kind |-> "question", content |-> question]

\* lines 181-236
llm_messages(question, chat_history, searching, search_documents) ==
    <<SystemPrompt>>
    \o [i \in 1..Len(chat_history) |-> [kind |-> "history", message |-> chat_history[i]]]
    \o (IF searching /\ search_documents # << >>
        THEN <<ContextMessage(search_documents)>> ELSE << >>)
    \o <<HumanQuestion(question)>>

\* what one turn of the agent does: lines 179 and 190-195
agent_turn(question, chat_history, search_documents) ==
    LET searching == should_search(question)
        documents == IF searching THEN search_documents ELSE << >>
    IN  [searched |-> searching,
         query |-> IF searching THEN improve_query(question) ELSE << >>,
         documents |-> documents,
         messages |-> llm_messages(question, chat_history, searching, documents)]

\* the histories handed to the agent: none, and one earlier turn
ChatHistories ==
    {<< >>,
     <<Message("user", WhatsNewWithBitcoinEtfs), Message("assistant", <<"o", "k">>)>>}

(***************************************************************************)
(* The functions of retrieval applied to drawn inputs: the ranking of      *)
(* search on a window of candidates, and the sources of a question         *)
(***************************************************************************)
\* longest window of candidates drawn
MaxWindow == 3

\* raw scores of the vector store: -0.5, 0, 0.25 and 1.0
RawScores == {0 - 6, 0, 3, 12}

DateFilters == {NoDate, 2}

\* search's ranking applied to a drawn window, database, top_k and date filter
RankCall ==
    /\ last.op = "none"
    /\ \E window \in Windows(ArticleIds \cup {NoArticleId}, RawScores, MaxWindow),
          db \in SUBSET ArticleIds, top_k \in TopKs, date_filter \in DateFilters :
          last' = [op |-> "rank", candidates |-> window, db |-> db, top_k |-> top_k,
                   date_filter |-> date_filter,
                   results |-> rank(window, db, top_k, date_filter)]
    /\ UNCHANGED <<corpus, qdrant, ids_file, svc, ix, caller>>
    /\ UNCHANGED sessionVars

\* get_search_results_for_sources applied to a drawn question; the results
\* of its search are those of a ranking without date filter
SourcesCall ==
    /\ last.op = "none"
    /\ \E question \in AgentQuestions,
          window \in Windows(ArticleIds, RawScores, MaxWindow - 1), top_k \in TopKs :
          LET search_results == rank(window, ArticleIds, top_k, NoDate)
          IN  last' = [op |-> "sources", question |-> question,
                       searched |-> should_search(question),
                       candidates |-> window, db |-> ArticleIds, top_k |-> top_k,
                       results |-> search_results,
                       sources |-> get_search_results_for_sources(question, search_results)]
    /\ UNCHANGED <<corpus, qdrant, ids_file, svc, ix, caller>>
    /\ UNCHANGED sessionVars

(***************************************************************************)
(* The two searches of one turn: get_search_results_for_sources before the *)
(* sources frame (sse.py lines 57-59), _perform_search when the generator  *)
(* is resumed (sse.py line 69, rag_agent.py line 195).  answer is the      *)
(* ranked candidate list the vector store holds for the query; the store   *)
(* returns its first k candidates (search.py lines 281-284).               *)
(***************************************************************************)
MaxOf(a, b) == IF a >= b THEN a ELSE b

\* search.py lines 281-340 on a loaded index whose id map has the articles of db
search_results(answer, db, top_k) ==
    rank(Take(answer, MinOf(top_k * 2, Cardinality(db))), db, top_k, NoDate)

\* rag_agent.py lines 24-27 and 36-62: the documents of _perform_search
perform_search(answer, db, top_k) ==
    LET bounded == MinOf(MaxOf(1, top_k), 20)
    IN  search_results(answer, db, bounded)

\* top_k values handed to generate_sse_response
TurnTopKs == {0} \cup TopKs

\* what the vector store may hold for the query after a rebuild of the index
RebuiltAnswers == Windows(ArticleIds, {One}, 1)

\* one turn: the sources of the first search, the documents of the second;
\* rebuilt: the index was rebuilt while the stream was suspended
TurnCall ==
    /\ last.op = "none"
    /\ \E question \in Questions, top_k \in TurnTopKs, rebuilt \in BOOLEAN,
          answer \in Windows(ArticleIds, IndexScores, MaxWindow - 1),
          later \in RebuiltAnswers :
          LET second == IF rebuilt THEN later ELSE answer
              searching == should_search(question)
          IN  /\ rebuilt \/ later = << >>
              /\ last' = [op |-> "turn", question |-> question, top_k |-> top_k,
                          searched |-> searching, rebuilt |-> rebuilt,
                          sources |-> get_search_results_for_sources(
                                          question, search_results(answer, ArticleIds, top_k)),
                          documents |-> IF searching
                                        THEN perform_search(second, ArticleIds, top_k)
                                        ELSE << >>]
    /\ UNCHANGED <<corpus, qdrant, ids_file, svc, ix, caller>>
    /\ UNCHANGED sessionVars

\* one turn of the agent on a drawn question, history and answer of the search
AgentCall ==
    /\ last.op = "none"
    /\ \E question \in AgentQuestions \cup {AndEth, PaddedCrypto},
          chat_history \in ChatHistories, search_documents \in SearchResults :
          LET turn == agent_turn(question, chat_history, search_documents)
          IN  last' = [op |-> "agent", question |-> question,
                       chat_history |-> chat_history, searched |-> turn.searched,
                       query |-> turn.query, documents |-> turn.documents,
                       messages |-> turn.messages]
    /\ UNCHANGED <<corpus, qdrant, ids_file, svc, ix, caller>>
    /\ UNCHANGED sessionVars

(***************************************************************************)
(* The SearchService called from several callers at once.  Its methods     *)
(* take no lock, so the assignments of load_index and build_index and the  *)
(* reads of search interleave.  Each field of ix carries the call that     *)
(* wrote it: a caller's number, or StartupTag for the load at startup.     *)
(***************************************************************************)
Callers == {1, 2}

NoTag == 0

StartupTag == 3

IdleCaller ==
    [pc |-> "idle", op |-> "none", documents |-> {}, served |-> FALSE,
     seen_vectorstore |-> NoTag, seen_map |-> NoTag, seen_count |-> NoTag]

IxNone ==
    [vectorstore |-> NoTag,
     article_ids_map |-> [ids |-> {}, by |-> NoTag],
     index_point_count |-> [n |-> NoCount, by |-> NoTag]]

\* the whole index written by one call
IxLoaded(ids, n, tag) ==
    [vectorstore |-> tag,
     article_ids_map |-> [ids |-> ids, by |-> tag],
     index_point_count |-> [n |-> n, by |-> tag]]

IndexIdle ==
    /\ corpus = {}
    /\ qdrant = NoCollection
    /\ ids_file = [exists |-> FALSE, ids |-> {}]
    /\ svc = NewService
    /\ last = LastNone
    /\ ix = IxNone
    /\ caller = [c \in Callers |-> IdleCaller]
    /\ ListsIdle

\* what the steps of the callers leave alone
IxRest == <<corpus, svc, last>>

IxCall(c, op) ==
    /\ caller[c].pc = "idle"
    /\ caller' = [caller EXCEPT ![c].op = op,
                     ![c].pc = CASE op = "search" -> "s_check"
                                 [] op = "load_index" -> "l_open"
                                 [] OTHER -> "b_clear"]
    /\ UNCHANGED <<ix, qdrant, ids_file, IxRest, sessionVars>>

\* search line 268 with lines 155-166: the staleness check
IxShouldReload(c) ==
    /\ caller[c].pc = "s_check"
    /\ LET reload == \/ ix.vectorstore = NoTag
                     \/ ix.index_point_count.n = NoCount
                     \/ get_collection_point_count(qdrant, TRUE) # ix.index_point_count.n
       IN  caller' = [caller EXCEPT ![c].seen_count = ix.index_point_count.by,
                                    ![c].pc = IF reload THEN "l_open" ELSE "s_vectorstore"]
    /\ UNCHANGED <<ix, qdrant, ids_file, IxRest, sessionVars>>

\* load_index lines 176-230: self.vectorstore = from_existing_collection(...)
IxLoadOpen(c) ==
    /\ caller[c].pc = "l_open"
    /\ IF qdrant.exists
       THEN /\ ix' = [ix EXCEPT !.vectorstore = c]
            /\ caller' = [caller EXCEPT ![c].pc = "l_map"]
       ELSE /\ caller' = [caller EXCEPT
                            ![c].pc = IF caller[c].op = "search"
                                      THEN "s_vectorstore" ELSE "done"]
            /\ UNCHANGED ix
    /\ UNCHANGED <<qdrant, ids_file, IxRest, sessionVars>>

\* load_index lines 232-237: self.article_ids_map = pickle.load(f)
IxLoadMap(c) ==
    /\ caller[c].pc = "l_map"
    /\ ix' = IF ids_file.exists
             THEN [ix EXCEPT !.article_ids_map = [ids |-> ids_file.ids, by |-> c]]
             ELSE ix
    /\ caller' = [caller EXCEPT ![c].pc = "l_count"]
    /\ UNCHANGED <<qdrant, ids_file, IxRest, sessionVars>>

\* load_index line 240: self._index_point_count = the live count
IxLoadCount(c) ==
    /\ caller[c].pc = "l_count"
    /\ ix' = [ix EXCEPT !.index_point_count =
                 [n |-> get_collection_point_count(qdrant, TRUE), by |-> c]]
    /\ caller' = [caller EXCEPT
                    ![c].seen_count = c,
                    ![c].pc = IF caller[c].op = "search" THEN "s_vectorstore" ELSE "done"]
    /\ UNCHANGED <<qdrant, ids_file, IxRest, sessionVars>>

\* build_index lines 84-93: the articles are read, self.article_ids_map = {}
IxBuildClear(c) ==
    /\ caller[c].pc = "b_clear"
    /\ IF corpus = {}
       THEN /\ caller' = [caller EXCEPT ![c].pc = "done"]
            /\ UNCHANGED ix
       ELSE /\ ix' = [ix EXCEPT !.article_ids_map = [ids |-> {}, by |-> c]]
            /\ caller' = [caller EXCEPT ![c].documents = corpus, ![c].pc = "b_fill"]
    /\ UNCHANGED <<qdrant, ids_file, IxRest, sessionVars>>

\* build_index lines 95-111: the map is filled, article by article
IxBuildFill(c) ==
    /\ caller[c].pc = "b_fill"
    /\ ix' = [ix EXCEPT !.article_ids_map = [ids |-> caller[c].documents, by |-> c]]
    /\ caller' = [caller EXCEPT ![c].pc = "b_store"]
    /\ UNCHANGED <<qdrant, ids_file, IxRest, sessionVars>>

\* build_index line 127: self.vectorstore = QdrantVectorStore.from_documents(...)
IxBuildStore(c) ==
    /\ caller[c].pc = "b_store"
    /\ HasRoom(qdrant, caller[c].documents)
    /\ qdrant' = build_collection(qdrant, caller[c].documents)
    /\ ix' = [ix EXCEPT !.vectorstore = c]
    /\ caller' = [caller EXCEPT ![c].pc = "b_file"]
    /\ UNCHANGED <<ids_file, IxRest, sessionVars>>

\* build_index lines 131-134: the id map is pickled
IxBuildFile(c) ==
    /\ caller[c].pc = "b_file"
    /\ ids_file' = [exists |-> TRUE, ids |-> ix.article_ids_map.ids]
    /\ caller' = [caller EXCEPT ![c].pc = "b_count"]
    /\ UNCHANGED <<ix, qdrant, IxRest, sessionVars>>

\* build_index line 139: self._index_point_count = the live count
IxBuildCount(c) ==
    /\ caller[c].pc = "b_count"
    /\ ix' = [ix EXCEPT !.index_point_count =
                 [n |-> get_collection_point_count(qdrant, TRUE), by |-> c]]
    /\ caller' = [caller EXCEPT ![c].pc = "done"]
    /\ UNCHANGED <<qdrant, ids_file, IxRest, sessionVars>>

\* search lines 275-281: self.vectorstore is tested, then used
IxSearchVectorstore(c) ==
    /\ caller[c].pc = "s_vectorstore"
    /\ caller' = [caller EXCEPT
                    ![c].seen_vectorstore = ix.vectorstore,
                    ![c].pc = IF ix.vectorstore = NoTag THEN "done" ELSE "s_map"]
    /\ UNCHANGED <<ix, qdrant, ids_file, IxRest, sessionVars>>

\* search line 283: k = min(top_k * 2, len(self.article_ids_map))
IxSearchMap(c) ==
    /\ caller[c].pc = "s_map"
    /\ caller' = [caller EXCEPT ![c].seen_map = ix.article_ids_map.by,
                                ![c].served = TRUE, ![c].pc = "done"]
    /\ UNCHANGED <<ix, qdrant, ids_file, IxRest, sessionVars>>

(***************************************************************************)
(* The store called from several threads.  Each storage method holds the   *)
(* storage lock for its own duration only (session.py lines 82-107), and   *)
(* get_messages and add_message take no lock around their sequence of      *)
(* storage calls and attribute accesses, so the steps below interleave.    *)
(* A SessionData object is shared by reference: store maps a session id to *)
(* a reference, heap maps a reference to the object.                       *)
(***************************************************************************)
None == 0

\* references: a session present at the start has its id as reference, the
\* object thread t creates has reference NewRef(t)
NewRef(t) == 10 + t

IdleThread ==
    [pc |-> "idle", op |-> "none", sid |-> EmptySid, message |-> Message("user", EmptyText),
     session_data |-> None, count |-> 0, excess |-> 0, slice |-> << >>, outcome |-> "ok",
     swept_now |-> 0, todo |-> << >>, expired_ids |-> << >>, j |-> 1,
     deleted |-> 0, returned |-> 0]

\* the message thread t appends
ThreadContent(t) == IF t = 1 THEN <<"t1">> ELSE <<"t2">>

ThCall(t, op, sid, role) ==
    /\ th[t].pc = "idle"
    /\ th' = [th EXCEPT ![t] = [@ EXCEPT
                !.pc = IF op = "add_message" THEN "a_get" ELSE "g_get",
                !.op = op, !.sid = sid,
                !.message = Message(role, ThreadContent(t))]]
    /\ UNCHANGED <<store, heap, total_messages, seqVars, indexVars>>

\* add_message line 206: session_data = self.storage.get_session(session_id)
ThAddGet(t) ==
    /\ th[t].pc = "a_get"
    /\ LET ref == IF th[t].sid \in DOMAIN store THEN store[th[t].sid] ELSE None
       IN  th' = [th EXCEPT ![t].session_data = ref,
                            ![t].pc = IF ref = None THEN "g_get" ELSE "a_append"]
    /\ UNCHANGED <<store, heap, total_messages, seqVars, indexVars>>

\* get_messages line 161: session_data = self.storage.get_session(session_id)
ThGet(t) ==
    /\ th[t].pc = "g_get"
    /\ LET ref == IF th[t].sid \in DOMAIN store THEN store[th[t].sid] ELSE None
       IN  th' = [th EXCEPT ![t].session_data = ref,
                            ![t].pc = IF ref = None THEN "g_check" ELSE "g_touch"]
    /\ UNCHANGED <<store, heap, total_messages, seqVars, indexVars>>

\* line 165: the capacity check
ThCheckCapacity(t) ==
    /\ th[t].pc = "g_check"
    /\ th' = [th EXCEPT ![t].pc =
                IF get_session_count(store) >= max_total_sessions
                THEN "g_cleanup" ELSE "g_create"]
    /\ UNCHANGED <<store, heap, total_messages, seqVars, indexVars>>

\* line 167: cleanup_expired_sessions (taken as one step here)
ThCleanup(t) ==
    /\ th[t].pc = "g_cleanup"
    /\ LET ex == {k \in DOMAIN store :
                    (now - heap[store[k]].last_accessed) > session_timeout_minutes}
       IN  /\ store' = [k \in (DOMAIN store) \ ex |-> store[k]]
           /\ total_messages' = total_messages
                - SumCounts([k \in ex |-> heap[store[k]]], ex)
    /\ th' = [th EXCEPT ![t].pc = "g_recheck"]
    /\ UNCHANGED <<heap, seqVars, indexVars>>

\* lines 169-173: the second capacity check
ThRecheckCapacity(t) ==
    /\ th[t].pc = "g_recheck"
    /\ th' = [th EXCEPT ![t] =
                IF get_session_count(store) >= max_total_sessions
                THEN [@ EXCEPT !.pc = "done", !.outcome = "RuntimeError"]
                ELSE [@ EXCEPT !.pc = "g_create"]]
    /\ UNCHANGED <<store, heap, total_messages, seqVars, indexVars>>

\* lines 177-178: create the session and save it
ThCreate(t) ==
    /\ th[t].pc = "g_create"
    /\ heap' = save_session(heap, NewRef(t), SessionData(now))
    /\ store' = save_session(store, th[t].sid, NewRef(t))
    /\ th' = [th EXCEPT ![t].session_data = NewRef(t),
                        ![t].pc = IF th[t].op = "add_message" THEN "a_reget" ELSE "done"]
    /\ UNCHANGED <<total_messages, seqVars, indexVars>>

\* line 181: session_data.last_accessed = datetime.utcnow()
ThTouch(t) ==
    /\ th[t].pc = "g_touch"
    /\ heap' = [heap EXCEPT ![th[t].session_data].last_accessed = now]
    /\ th' = [th EXCEPT ![t].pc = "g_save"]
    /\ UNCHANGED <<store, total_messages, seqVars, indexVars>>

\* line 182: self.storage.save_session(session_data)
ThTouchSave(t) ==
    /\ th[t].pc = "g_save"
    /\ store' = save_session(store, th[t].sid, th[t].session_data)
    /\ th' = [th EXCEPT ![t].pc = IF th[t].op = "add_message" THEN "a_reget" ELSE "done"]
    /\ UNCHANGED <<heap, total_messages, seqVars, indexVars>>

\* add_message line 210: session_data = self.storage.get_session(session_id)
ThAddReget(t) ==
    /\ th[t].pc = "a_reget"
    /\ LET ref == IF th[t].sid \in DOMAIN store THEN store[th[t].sid] ELSE None
       IN  th' = [th EXCEPT ![t] =
                    IF ref = None
                    THEN [@ EXCEPT !.pc = "done", !.outcome = "AttributeError",
                                   !.session_data = None]
                    ELSE [@ EXCEPT !.pc = "a_append", !.session_data = ref]]
    /\ UNCHANGED <<store, heap, total_messages, seqVars, indexVars>>

\* line 219: session_data.messages.append(message)
ThAppend(t) ==
    /\ th[t].pc = "a_append"
    /\ heap' = [heap EXCEPT ![th[t].session_data].messages = Append(@, th[t].message)]
    /\ th' = [th EXCEPT ![t].pc = "a_count"]
    /\ UNCHANGED <<store, total_messages, seqVars, indexVars>>

\* line 220, first half: read message_count
ThCountRead(t) ==
    /\ th[t].pc = "a_count"
    /\ th' = [th EXCEPT ![t].count = heap[th[t].session_data].message_count,
                        ![t].pc = "a_count_write"]
    /\ UNCHANGED <<store, heap, total_messages, seqVars, indexVars>>

\* line 220, second half, and line 221: write message_count, last_accessed
ThCountWrite(t) ==
    /\ th[t].pc = "a_count_write"
    /\ heap' = [heap EXCEPT ![th[t].session_data].message_count = th[t].count + 1,
                            ![th[t].session_data].last_accessed = now]
    /\ th' = [th EXCEPT ![t].pc = "a_check"]
    /\ UNCHANGED <<store, total_messages, seqVars, indexVars>>

\* line 224: the length check
ThLengthCheck(t) ==
    /\ th[t].pc = "a_check"
    /\ th' = [th EXCEPT ![t].pc =
                IF Len(heap[th[t].session_data].messages) > max_messages_per_session
                THEN "a_excess" ELSE "a_save"]
    /\ UNCHANGED <<store, heap, total_messages, seqVars, indexVars>>

\* line 226: excess = len(session_data.messages) - max_messages_per_session
ThExcess(t) ==
    /\ th[t].pc = "a_excess"
    /\ th' = [th EXCEPT ![t].excess =
                   Len(heap[th[t].session_data].messages) - max_messages_per_session,
                        ![t].pc = "a_slice"]
    /\ UNCHANGED <<store, heap, total_messages, seqVars, indexVars>>

\* line 227, right-hand side: session_data.messages[excess:]
ThSlice(t) ==
    /\ th[t].pc = "a_slice"
    /\ LET m == heap[th[t].session_data].messages
       IN  th' = [th EXCEPT ![t].slice = SubSeq(m, th[t].excess + 1, Len(m)),
                            ![t].pc = "a_assign"]
    /\ UNCHANGED <<store, heap, total_messages, seqVars, indexVars>>

\* line 227, the assignment: session_data.messages = <the slice>
ThAssign(t) ==
    /\ th[t].pc = "a_assign"
    /\ heap' = [heap EXCEPT ![th[t].session_data].messages = th[t].slice]
    /\ th' = [th EXCEPT ![t].pc = "a_save"]
    /\ UNCHANGED <<store, total_messages, seqVars, indexVars>>

\* line 234: self.storage.save_session(session_data)
ThSave(t) ==
    /\ th[t].pc = "a_save"
    /\ store' = save_session(store, th[t].sid, th[t].session_data)
    /\ th' = [th EXCEPT ![t].pc = "a_total"]
    /\ UNCHANGED <<heap, total_messages, seqVars, indexVars>>

\* lines 236-237: the counter, under the manager's lock
ThTotal(t) ==
    /\ th[t].pc = "a_total"
    /\ total_messages' = total_messages + 1
    /\ th' = [th EXCEPT ![t].pc = "done"]
    /\ UNCHANGED <<store, heap, seqVars, indexVars>>

\* histories a session may hold when the threads start: none, or a full one
OldHistories ==
    {<< >>, [i \in 1..max_messages_per_session |-> Message("user", <<"old">>)]}

InitThreads ==
    /\ IndexIdle
    /\ sessions = << >>
    /\ now = 0
    /\ result = "ok"
    /\ req = [r \in Requests |-> IdleRequest]
    /\ th = [t \in Threads |-> IdleThread]
    /\ \E present \in SUBSET SessionIds :
         /\ Cardinality(present) <= max_total_sessions
         /\ store = [k \in present |-> k]
         /\ \E hist \in [present -> OldHistories] :
              /\ heap = [k \in present |->
                           [messages |-> hist[k], last_accessed |-> 0,
                            message_count |-> Len(hist[k])]]
              /\ total_messages = SumCounts(heap, present)

NextThreads ==
    \/ \E t \in Threads, sid \in SessionIds : ThCall(t, "get_messages", sid, "user")
    \/ \E t \in Threads, sid \in SessionIds, role \in Roles :
          ThCall(t, "add_message", sid, role)
    \/ \E t \in Threads : ThAddGet(t)
    \/ \E t \in Threads : ThGet(t)
    \/ \E t \in Threads : ThCheckCapacity(t)
    \/ \E t \in Threads : ThCleanup(t)
    \/ \E t \in Threads : ThRecheckCapacity(t)
    \/ \E t \in Threads : ThCreate(t)
    \/ \E t \in Threads : ThTouch(t)
    \/ \E t \in Threads : ThTouchSave(t)
    \/ \E t \in Threads : ThAddReget(t)
    \/ \E t \in Threads : ThAppend(t)
    \/ \E t \in Threads : ThCountRead(t)
    \/ \E t \in Threads : ThCountWrite(t)
    \/ \E t \in Threads : ThLengthCheck(t)
    \/ \E t \in Threads : ThExcess(t)
    \/ \E t \in Threads : ThSlice(t)
    \/ \E t \in Threads : ThAssign(t)
    \/ \E t \in Threads : ThSave(t)
    \/ \E t \in Threads : ThTotal(t)

SpecThreads == InitThreads /\ [][NextThreads]_vars

(***************************************************************************)
(* cleanup_expired_sessions called while other threads use the store       *)
(* (session.py lines 256-287).  The sweep takes no lock of its own: each   *)
(* storage call holds the storage lock for its own duration, so the scan   *)
(* (lines 267-270) and the deletions (lines 273-282) are separate steps    *)
(* between which get_messages of another thread may run.  The locals of    *)
(* the sweep are fields of th[t]: swept_now (now, line 262), todo (the ids *)
(* the scan has still to visit), expired_ids, j (the position of the       *)
(* deleting loop), returned (the value returned); deleted counts the       *)
(* entries delete_session removed for this sweep.                          *)
(***************************************************************************)
RECURSIVE get_all_session_ids(_)
get_all_session_ids(S) ==
    IF DOMAIN S = {} THEN << >>
    ELSE LET k == CHOOSE x \in DOMAIN S : \A y \in DOMAIN S : x <= y
         IN  <<k>> \o get_all_session_ids([y \in (DOMAIN S) \ {k} |-> S[y]])

\* lines 262-264: now, timeout, expired_ids = []
SwCall(t) ==
    /\ th[t].pc = "idle"
    /\ th' = [th EXCEPT ![t] = [@ EXCEPT !.pc = "c_ids", !.op = "cleanup",
                                         !.swept_now = now, !.expired_ids = << >>]]
    /\ UNCHANGED <<store, heap, total_messages, seqVars, indexVars>>

\* line 267: self.storage.get_all_session_ids()
SwIds(t) ==
    /\ th[t].pc = "c_ids"
    /\ th' = [th EXCEPT ![t].todo = get_all_session_ids(store), ![t].pc = "c_scan"]
    /\ UNCHANGED <<store, heap, total_messages, seqVars, indexVars>>

\* the test of line 269 on a session object
is_expired(session_data, t) ==
    (t - session_data.last_accessed) > session_timeout_minutes

\* lines 268-270: one round of the scanning loop
SwScan(t) ==
    /\ th[t].pc = "c_scan"
    /\ th[t].todo # << >>
    /\ LET sid == Head(th[t].todo)
           found == /\ sid \in DOMAIN store
                    /\ is_expired(heap[store[sid]], th[t].swept_now)
       IN  th' = [th EXCEPT ![t].todo = Tail(@),
                            ![t].expired_ids = IF found THEN Append(@, sid) ELSE @]
    /\ UNCHANGED <<store, heap, total_messages, seqVars, indexVars>>

\* line 273: the scan is over, the deleting loop starts
SwScanned(t) ==
    /\ th[t].pc = "c_scan"
    /\ th[t].todo = << >>
    /\ th' = [th EXCEPT ![t].pc = "c_reget", ![t].j = 1]
    /\ UNCHANGED <<store, heap, total_messages, seqVars, indexVars>>

\* lines 274-275: session_data = self.storage.get_session(session_id)
SwReget(t) ==
    /\ th[t].pc = "c_reget"
    /\ th[t].j <= Len(th[t].expired_ids)
    /\ LET sid == th[t].expired_ids[th[t].j]
           ref == IF sid \in DOMAIN store THEN store[sid] ELSE None
       IN  th' = [th EXCEPT ![t].session_data = ref,
                            ![t].pc = IF ref = None THEN "c_reget" ELSE "c_total",
                            ![t].j = IF ref = None THEN @ + 1 ELSE @]
    /\ UNCHANGED <<store, heap, total_messages, seqVars, indexVars>>

\* lines 276-277: self._total_messages -= session_data.message_count
SwTotal(t) ==
    /\ th[t].pc = "c_total"
    /\ total_messages' = total_messages - heap[th[t].session_data].message_count
    /\ th' = [th EXCEPT ![t].pc = "c_remove"]
    /\ UNCHANGED <<store, heap, seqVars, indexVars>>

\* line 282: self.storage.delete_session(session_id)
SwRemove(t) ==
    /\ th[t].pc = "c_remove"
    /\ LET sid == th[t].expired_ids[th[t].j]
       IN  /\ store' = delete_session(store, sid)
           /\ th' = [th EXCEPT ![t].pc = "c_reget", ![t].j = @ + 1,
                               ![t].deleted = IF sid \in DOMAIN store THEN @ + 1 ELSE @]
    /\ UNCHANGED <<heap, total_messages, seqVars, indexVars>>

\* line 287: return len(expired_ids)
SwReturn(t) ==
    /\ th[t].pc = "c_reget"
    /\ th[t].j > Len(th[t].expired_ids)
    /\ th' = [th EXCEPT ![t].pc = "done", ![t].returned = Len(th[t].expired_ids)]
    /\ UNCHANGED <<store, heap, total_messages, seqVars, indexVars>>

\* the sessions a sweep may meet: present since time 0, empty or full
InitSweep == InitThreads

NextSweep ==
    \/ \E t \in Threads : SwCall(t)
    \/ \E t \in Threads : SwIds(t)
    \/ \E t \in Threads : SwScan(t)
    \/ \E t \in Threads : SwScanned(t)
    \/ \E t \in Threads : SwReget(t)
    \/ \E t \in Threads : SwTotal(t)
    \/ \E t \in Threads : SwRemove(t)
    \/ \E t \in Threads : SwReturn(t)
    \/ \E t \in Threads, sid \in SessionIds : ThCall(t, "get_messages", sid, "user")
    \/ \E t \in Threads : ThGet(t)
    \/ \E t \in Threads : ThCheckCapacity(t)
    \/ \E t \in Threads : ThCleanup(t)
    \/ \E t \in Threads : ThRecheckCapacity(t)
    \/ \E t \in Threads : ThCreate(t)
    \/ \E t \in Threads : ThTouch(t)
    \/ \E t \in Threads : ThTouchSave(t)
    \/ Tick

SpecSweep == InitSweep /\ [][NextSweep]_vars

InitStore ==
    /\ IndexIdle
    /\ sessions = << >>
    /\ total_messages = 0
    /\ now = 0
    /\ result = "ok"
    /\ req = [r \in Requests |-> IdleRequest]
    /\ store = << >>
    /\ heap = << >>
    /\ th = [t \in Threads |-> IdleThread]

NextStore ==
    \/ \E sid \in SessionIds : GetMessagesCall(sid)
    \/ \E sid \in SessionIds, role \in Roles, content \in CallerContents \ {EmptyText} :
          AddMessageCall(sid, role, content)
    \/ \E sid \in SessionIds : ClearSessionCall(sid)
    \/ CleanupCall
    \/ Tick

SpecStore == InitStore /\ [][NextStore]_vars

\* the store as the session endpoints use it: histories of user messages,
\* cleared through DELETE /api/sessions/{session_id} (routes/sessions.py)
NextClear ==
    \/ \E sid \in SessionIds : GetMessagesCall(sid)
    \/ \E sid \in SessionIds : AddMessageCall(sid, "user", <<"m">>)
    \/ \E sid \in SessionIds : ClearSessionCall(sid)
    \/ CleanupCall
    \/ Tick

SpecClear == InitStore /\ [][NextClear]_vars

\* session ids a caller may pass: two valid ones, the empty one, one too long
CallerSids == {1, 2, EmptySid, LongSid}

\* the store called with any arguments, valid or not
NextStoreInputs ==
    \/ \E sid \in CallerSids : GetMessagesCall(sid)
    \/ \E sid \in CallerSids, role \in CallerRoles, content \in CallerContents :
          AddMessageCall(sid, role, content)
    \/ Tick

SpecStoreInputs == InitStore /\ [][NextStoreInputs]_vars

\* the store with its message lists followed as objects
InitLists == InitStore

ListSids == {1, 2}

NextLists ==
    \/ \E sid \in ListSids : ListGetMessages(sid)
    \/ \E sid \in ListSids, role \in Roles, content \in CallerContents \ {EmptyText} :
          ListAddMessage(sid, role, content)
    \/ ListTick

SpecLists == InitLists /\ [][NextLists]_vars

\* The service starts with an empty store; it may also be observed from a
\* later point, where a session opened by an earlier turn is still there,
\* just accessed or idle for longer than the timeout.
Init ==
    /\ IndexIdle
    /\ \/ sessions = << >> /\ now = 0
       \/ sessions = (3 :> SessionData(0)) /\ now \in {0, MaxNow}
    /\ total_messages = 0
    /\ result = "ok"
    /\ req = [r \in Requests |-> IdleRequest]
    /\ store = << >>
    /\ heap = << >>
    /\ th = [t \in Threads |-> IdleThread]

Next ==
    \/ \E r \in Requests, q \in Questions, sid \in AllSids, verdict \in BOOLEAN :
          AskQuestion(r, q, sid, verdict)
    \/ \E r \in Requests, docs \in SearchResults, search_failed \in BOOLEAN :
          StreamStart(r, docs, search_failed)
    \/ \E r \in Requests : GenStart(r)
    \/ \E r \in Requests, chunk \in LLMChunks : LLMChunk(r, chunk)
    \/ \E r \in Requests : LLMError(r)
    \/ \E r \in Requests : StreamEnd(r)
    \/ \E r \in Requests : Cancel(r)
    \/ \E sid \in SessionIds : ClearSessionCall(sid)

Spec == Init /\ [][Next]_vars

\* questions of every length class put to the route: empty, shorter than
\* min_length, blank, within the bounds, longer than max_length
AskedQuestions == {EmptyText, Hi, Blank, Hello, BtcEtf, TooLong}

\* session ids of the requests put to the route
AskedSids == {EmptySid, 1}

\* the route called with questions of every length class
NextAsk ==
    \/ \E r \in Requests, q \in AskedQuestions, sid \in AskedSids, verdict \in BOOLEAN :
          AskQuestion(r, q, sid, verdict)
    \/ \E r \in Requests, docs \in SearchResults, search_failed \in BOOLEAN :
          StreamStart(r, docs, search_failed)
    \/ \E r \in Requests : GenStart(r)
    \/ \E r \in Requests, chunk \in LLMChunks : LLMChunk(r, chunk)
    \/ \E r \in Requests : LLMError(r)
    \/ \E r \in Requests : StreamEnd(r)
    \/ \E r \in Requests : Cancel(r)

SpecAsk == Init /\ [][NextAsk]_vars

\* the session store, idle
SessionsIdle ==
    /\ sessions = << >>
    /\ total_messages = 0
    /\ now = 0
    /\ result = "ok"
    /\ req = [r \in Requests |-> IdleRequest]
    /\ store = << >>
    /\ heap = << >>
    /\ th = [t \in Threads |-> IdleThread]
    /\ ListsIdle

\* the callers start on a service that loaded the index at startup, when the
\* collection held article 1; the collection may have grown since
InitIndexThreads ==
    /\ SessionsIdle
    /\ svc = NewService
    /\ last = LastNone
    /\ caller = [c \in Callers |-> IdleCaller]
    /\ corpus \in {{1}, ArticleIds}
    /\ qdrant = [exists |-> TRUE, points |-> [a \in ArticleIds |-> IF a \in corpus THEN 1 ELSE 0]]
    /\ ids_file = [exists |-> TRUE, ids |-> corpus]
    /\ ix = IxLoaded({1}, 1, StartupTag)

NextIndexThreads ==
    \/ \E c \in Callers, op \in {"search", "load_index", "build_index"} : IxCall(c, op)
    \/ \E c \in Callers : IxShouldReload(c)
    \/ \E c \in Callers : IxLoadOpen(c)
    \/ \E c \in Callers : IxLoadMap(c)
    \/ \E c \in Callers : IxLoadCount(c)
    \/ \E c \in Callers : IxBuildClear(c)
    \/ \E c \in Callers : IxBuildFill(c)
    \/ \E c \in Callers : IxBuildStore(c)
    \/ \E c \in Callers : IxBuildFile(c)
    \/ \E c \in Callers : IxBuildCount(c)
    \/ \E c \in Callers : IxSearchVectorstore(c)
    \/ \E c \in Callers : IxSearchMap(c)

SpecIndexThreads == InitIndexThreads /\ [][NextIndexThreads]_vars

\* the service starts with nothing loaded; the database may hold articles, and
\* the collection and the pickled id map may have been built from them by an
\* earlier process (scripts/ingest_news.py)
InitIndex ==
    /\ SessionsIdle
    /\ corpus \in SUBSET ArticleIds
    /\ \/ /\ qdrant = NoCollection
          /\ ids_file = [exists |-> FALSE, ids |-> {}]
       \/ /\ corpus # {}
          /\ qdrant = from_documents(NoCollection, corpus)
          /\ ids_file = [exists |-> TRUE, ids |-> corpus]
    /\ svc = NewService
    /\ last = LastNone
    /\ ix = IxNone
    /\ caller = [c \in Callers |-> IdleCaller]

NextIndex ==
    \/ \E top_k \in TopKs, check_ok \in BOOLEAN, env \in LoadEnvs,
          window \in Windows(ArticleIds, IndexScores, MaxCopies) :
          SearchCall(top_k, check_ok, env, window)
    \/ \E env \in LoadEnvs : LoadIndexCall(env)
    \/ \E sparse_ok \in BOOLEAN, count_ok \in BOOLEAN : BuildIndexCall(sparse_ok, count_ok)
    \/ \E sparse_ok \in BOOLEAN, recreate \in BOOLEAN :
          IndexServiceBuildCall(sparse_ok, recreate)
    \/ \E a \in ArticleIds : AddArticle(a)

SpecIndex == InitIndex /\ [][NextIndex]_vars

InitFunctions ==
    /\ SessionsIdle
    /\ IndexIdle

\* each behaviour draws one input and applies one function to it
NextFunctions ==
    \/ RankCall
    \/ SourcesCall
    \/ AgentCall
    \/ TurnCall

SpecFunctions == InitFunctions /\ [][NextFunctions]_vars

(***************************************************************************)
(* Helpers of the properties                                               *)
(***************************************************************************)
Range(seq) == {seq[i] : i \in 1..Len(seq)}

LastN(seq, n) ==
    IF Len(seq) > n THEN SubSeq(seq, Len(seq) - n + 1, Len(seq)) ELSE seq

Min(a, b) == IF a <= b THEN a ELSE b

\* C1: after any sequence of add_message calls (any roles, any sessions),
\* every session holds at most max_messages_per_session messages.
C1_MessagesBounded ==
    \A sid \in DOMAIN sessions :
        Len(sessions[sid].messages) <= max_messages_per_session

\* a session that received more messages than it holds: the trim has acted
C1_TrimHappened ==
    \E sid \in DOMAIN sessions :
        /\ Len(sessions[sid].messages) = max_messages_per_session
        /\ sessions[sid].message_count > max_messages_per_session

\* C2: the number of active sessions never exceeds max_total_sessions, also
\* when several threads call get_messages with distinct unseen ids while the
\* store is one below capacity.
C2_SessionsBounded ==
    /\ Cardinality(DOMAIN store) <= max_total_sessions
    /\ Cardinality(DOMAIN sessions) <= max_total_sessions

\* C3: when two threads have appended to the same session concurrently, both
\* messages are in the history (as far as the bound leaves room for them) and
\* the history is no longer than max_messages_per_session.
C3_AddMessageAtomic ==
    \A t1 \in Threads, t2 \in Threads :
        ( /\ t1 # t2
          /\ th[t1].op = "add_message" /\ th[t2].op = "add_message"
          /\ th[t1].sid = th[t2].sid
          /\ th[t1].pc = "done" /\ th[t2].pc = "done"
          /\ th[t1].outcome = "ok" /\ th[t2].outcome = "ok" )
        => /\ th[t1].sid \in DOMAIN store
           /\ LET m == heap[store[th[t1].sid]].messages
              IN  /\ Len(m) <= max_messages_per_session
                  /\ Cardinality({th[t1].message, th[t2].message} \cap Range(m))
                       >= Min(2, max_messages_per_session)

\* C4: get_messages with an unseen id creates the session while fewer than
\* max_total_sessions exist; at capacity it sweeps the expired sessions first,
\* then creates the session if the sweep removed one, and otherwise raises
\* RuntimeError and leaves the sessions as they were.
C4_CapacityPolicy ==
    [][\A sid \in SessionIds :
          (sid \notin DOMAIN sessions /\ GetMessagesCall(sid)) =>
             LET present == DOMAIN sessions
                 expired == {k \in present :
                               now - sessions[k].last_accessed > session_timeout_minutes}
             IN  IF Cardinality(present) < max_total_sessions
                 THEN /\ result' = "ok"
                      /\ DOMAIN sessions' = present \cup {sid}
                      /\ sessions'[sid].messages = << >>
                 ELSE IF expired # {}
                 THEN /\ result' = "ok"
                      /\ DOMAIN sessions' = (present \ expired) \cup {sid}
                      /\ sessions'[sid].messages = << >>
                 ELSE /\ result' = "RuntimeError"
                      /\ sessions' = sessions]_vars

\* the capacity error was raised on a full store
C4_CapacityErrorRaised ==
    /\ result = "RuntimeError"
    /\ Cardinality(DOMAIN sessions) = max_total_sessions
    /\ \A k \in DOMAIN sessions :
          now - sessions[k].last_accessed <= session_timeout_minutes

\* C5: a stream that ran to its end (done or failed) ends with a terminal
\* frame, a terminal frame is never followed by another frame (so there is
\* exactly one), and the stream has ended once it is sent.
C5_OneTerminalFrame ==
    \A r \in Requests :
        LET fr == req[r].frames
        IN  /\ \A i \in 1..Len(fr) : IsTerminal(fr[i]) => i = Len(fr)
            /\ req[r].pc \in {"done", "failed"} =>
                  (Len(fr) > 0 /\ IsTerminal(fr[Len(fr)]))
            /\ req[r].pc = "done" => fr[Len(fr)] = DoneFrame
            /\ req[r].pc = "failed" => fr[Len(fr)].type = "error"
            /\ (Len(fr) > 0 /\ IsTerminal(fr[Len(fr)])) =>
                  req[r].pc \in {"done", "failed"}

\* a stream that failed in the persistence step, after sources and content
C5_FailedAfterContent ==
    \E r \in Requests :
        /\ req[r].pc = "failed"
        /\ Len(req[r].frames) >= 3
        /\ req[r].frames[Len(req[r].frames)].type = "error"

\* C6: the sources frame is the first frame of a stream that sends any
\* content: no content frame precedes it, and the LLM is not invoked before
\* it was sent.
C6_SourcesFirst ==
    \A r \in Requests :
        LET fr == req[r].frames
        IN  /\ \A i \in 1..Len(fr) :
                  fr[i].type = "content" => (i > 1 /\ fr[1].type = "sources")
            /\ \A i \in 1..Len(fr) : fr[i].type = "sources" => i = 1
            /\ req[r].llm_invoked => (Len(fr) > 0 /\ fr[1].type = "sources")

\* a stream that sent non-empty sources and then content
C6_ContentAfterSources ==
    \E r \in Requests :
        /\ Len(req[r].frames) >= 2
        /\ req[r].frames[1].type = "sources"
        /\ req[r].frames[1].data # << >>
        /\ req[r].frames[2].type = "content"

\* C7: a question the moderation found not safe is rejected before any frame
\* is sent, search and LLM are not invoked for it, and the rejection leaves
\* the session store as it was.
C7_ModerationBlocks ==
    /\ [](\A r \in Requests :
             ~ req[r].is_safe =>
                /\ req[r].pc = "rejected"
                /\ req[r].frames = << >>
                /\ req[r].search_calls = 0
                /\ ~ req[r].llm_invoked)
    /\ [][\A r \in Requests :
             (req[r].is_safe /\ ~ req'[r].is_safe) =>
                (sessions' = sessions /\ total_messages' = total_messages)]_vars

\* a rejected request next to a request that is streaming
C7_RejectedRequest ==
    \E r \in Requests, r2 \in Requests :
        /\ req[r].pc = "rejected" /\ ~ req[r].is_safe
        /\ req[r2].pc = "streaming"

\* the step that ends request r's turn
EndsTurn(r) ==
    /\ req[r].pc \in {"streaming", "exhausted"}
    /\ req'[r].pc \in {"done", "failed"}

TurnMessages(r) ==
    <<Message("user", req[r].question), Message("assistant", req[r].full_response)>>

\* the step appends r's two messages to r's session (FIFO trim applied), and
\* leaves the history of every other session alone
TurnAppended(r) ==
    LET sid == req[r].session_id
        old == IF sid \in DOMAIN sessions THEN sessions[sid].messages ELSE << >>
        cnt == IF sid \in DOMAIN sessions THEN sessions[sid].message_count ELSE 0
    IN  /\ sid \in DOMAIN sessions'
        /\ sessions'[sid].messages
              = LastN(old \o TurnMessages(r), max_messages_per_session)
        /\ sessions'[sid].message_count = cnt + 2
        /\ \A k \in (DOMAIN sessions') \ {sid} :
              k \in DOMAIN sessions /\ sessions'[k].messages = sessions[k].messages

\* the step changes no session's history
NoHistoryChange ==
    \A k \in DOMAIN sessions' :
        k \in DOMAIN sessions /\ sessions'[k].messages = sessions[k].messages

\* the store can take a message for sid: the session exists, or there is room
\* for it, or the sweep makes room
StoreAccepts(sid) ==
    \/ sid \in DOMAIN sessions
    \/ Cardinality(DOMAIN sessions) < max_total_sessions
    \/ \E k \in DOMAIN sessions :
          now - sessions[k].last_accessed > session_timeout_minutes

\* C8 as stated: at the end of a turn the store is appended to if and only if
\* a session id was supplied and at least one content chunk was produced, and
\* then by exactly the user question followed by the accumulated text.
C8_PersistIffSessionAndContent ==
    [][\A r \in Requests :
          EndsTurn(r) =>
             IF req[r].session_id # EmptySid /\ req[r].chunk_count >= 1
             THEN TurnAppended(r)
             ELSE NoHistoryChange]_vars

\* C8 amended: ... if and only if a session id was supplied, at least one
\* content chunk was produced and the store accepts the session (it still
\* exists, or can be created again); otherwise no history changes, and when
\* the store refuses the stream ends with the error frame.
C8_PersistWhenStoreAccepts ==
    [][\A r \in Requests :
          EndsTurn(r) =>
             IF req[r].session_id # EmptySid /\ req[r].chunk_count >= 1
             THEN IF StoreAccepts(req[r].session_id)
                  THEN TurnAppended(r) /\ req'[r].pc = "done"
                  ELSE NoHistoryChange /\ req'[r].pc = "failed"
             ELSE NoHistoryChange /\ req'[r].pc = "done"]_vars

\* a finished turn whose two messages close the history of its session
C8_TurnPersisted ==
    \E r \in Requests :
        /\ req[r].pc = "done"
        /\ req[r].session_id \in DOMAIN sessions
        /\ req[r].chunk_count >= 1
        /\ LET m == sessions[req[r].session_id].messages
           IN  /\ Len(m) >= 2
               /\ SubSeq(m, Len(m) - 1, Len(m)) = TurnMessages(r)
        /\ sessions[req[r].session_id].message_count > max_messages_per_session

\* C9: when the LLM stream raised, the failure is sent as an error frame, and
\* its text is never sent as content.
C9_GenerationFailureIsErrorFrame ==
    \A r \in Requests :
        LET fr == req[r].frames
        IN  /\ req[r].pc = "exhausted" => fr[Len(fr)].type = "error"
            /\ \A i \in 1..Len(fr) :
                  fr[i].type = "content" => fr[i].data # ErrorText

\* C10: when the client disconnects after at least one content chunk on a
\* stream with a session id, the persistence step still runs: the user turn
\* and the partial assistant text are appended to the session.
C10_CancelStillPersists ==
    [][\A r \in Requests :
          ( /\ req[r].pc \in {"sources", "streaming", "exhausted"}
            /\ req'[r].pc = "cancelled"
            /\ req[r].chunk_count >= 1
            /\ req[r].session_id \in SessionIds )
          => TurnAppended(r)]_vars

C12_SecondCheckReloadsNothing ==
    [][( /\ last.op = "search" /\ last'.op = "search"
         /\ svc.vectorstore
         /\ last.reloaded => last.load_ok )
       => ~ last'.reloaded]_vars

\* C13: a search that finds the cached point count different from the live one
\* reloads before it retrieves; after a successful reload the cached count is
\* the live count read during that reload; and no query is answered from the
\* index while its cached count is known to differ from the live one.
C13_NoQueryOnKnownStaleIndex ==
    last.op = "search" =>
        /\ last.mismatch => last.reloaded
        /\ (last.reloaded /\ last.load_ok) => svc.index_point_count = last.live
        /\ (last.served /\ last.mismatch) => last.load_ok

\* caller c is in the middle of a load_index or of a build_index
Reloading(c) ==
    caller[c].pc \in {"l_map", "l_count", "b_fill", "b_store", "b_file", "b_count"}

C15_ScoresInUnitIntervalSorted ==
    last.op = "rank" =>
        /\ \A i \in 1..Len(last.results) :
              last.results[i].score >= 0 /\ last.results[i].score <= One
        /\ \A i \in 1..(Len(last.results) - 1) :
              last.results[i].score >= last.results[i + 1].score

\* no two entries of the sequence carry the same article id
UniqueIds(seq) == \A i, j \in 1..Len(seq) : seq[i].id = seq[j].id => i = j

\* C16: no two results of search carry the same article id, and no two
\* entries of the sources do, even when the vector store returned an article
\* several times.
C16_NoDuplicateDocuments ==
    /\ last.op \in {"rank", "sources"} => UniqueIds(last.results)
    /\ last.op = "sources" => UniqueIds(last.sources)

\* the vector store returned an article twice, and the sources hold it
C16_DuplicateCandidateKeptOnce ==
    /\ last.op = "sources"
    /\ \E i, j \in 1..Len(last.candidates) :
          /\ i # j
          /\ last.candidates[i].id = last.candidates[j].id
          /\ \E n \in 1..Len(last.sources) : last.sources[n].id = last.candidates[i].id

C18_ResultsAtOrAboveThreshold ==
    last.op = "rank" =>
        \A i \in 1..Len(last.results) :
            last.results[i].score * 10 >= similarity_threshold * One

\* C20: should_search is false for "hello", false for "what did I just ask?"
\* and true for "what's new with Bitcoin ETFs?".
C20_ShouldSearchExamples ==
    last.op = "sources" =>
        /\ last.question = Hello => ~ last.searched
        /\ last.question = WhatDidIJustAsk => ~ last.searched
        /\ last.question = WhatsNewWithBitcoinEtfs => last.searched

\* C19: when a build has indexed the articles of the database, the collection
\* holds exactly one point for each of them and no point of an earlier build.
C19_BuildIsFullReplace ==
    (last.op \in {"build_index", "index_build"} /\ last.load_ok) =>
        qdrant.points = [a \in ArticleIds |-> IF a \in corpus THEN 1 ELSE 0]

\* C27: a step that keeps a session either leaves its history and its message
\* counter as they were, or it is an add_message on that session, which puts
\* its message at the end of the history and, on overflow, drops the oldest
\* messages only, keeping the max_messages_per_session most recent.  A history
\* is thus always the tail, in arrival order, of what was appended.
C27_HistoryIsSuffixOfAppends ==
    [][\A sid \in DOMAIN sessions' :
          LET old == IF sid \in DOMAIN sessions THEN sessions[sid]
                     ELSE SessionData(now)
              new == sessions'[sid]
          IN  IF new.message_count = old.message_count
              THEN new.messages = old.messages
              ELSE \E role \in Roles, content \in CallerContents \ {EmptyText} :
                      /\ AddMessageCall(sid, role, content)
                      /\ new.messages = LastN(Append(old.messages, Message(role, content)),
                                              max_messages_per_session)]_vars

\* a full history of different messages lost its oldest ones
C27_OldestDropped ==
    \E sid \in DOMAIN sessions :
        LET m == sessions[sid].messages
        IN  /\ sessions[sid].message_count > max_messages_per_session
            /\ Len(m) = max_messages_per_session
            /\ m[1] # m[Len(m)]
            /\ result = "ok"

\* C28: a sweep removes the sessions idle for more than the timeout and no
\* other, leaves every other session as it was, and returns the number of
\* sessions it removed.
C28_SweepRemovesExactlyExpired ==
    [][CleanupCall =>
          LET idle(k) == now - sessions[k].last_accessed
              kept == {k \in DOMAIN sessions : idle(k) <= session_timeout_minutes}
              returned == cleanup_expired_sessions(sessions, total_messages, now).cleaned
          IN  /\ DOMAIN sessions' = kept
              /\ \A k \in kept : sessions'[k] = sessions[k]
              /\ returned = Cardinality(DOMAIN sessions) - Cardinality(DOMAIN sessions')]_vars

\* a store on which the sweep removes a session and keeps another that has
\* been idle for exactly the timeout, with its messages
C28_SweepRemovesOneKeepsOne ==
    /\ \E k \in DOMAIN sessions :
          /\ now - sessions[k].last_accessed = session_timeout_minutes
          /\ sessions[k].messages # << >>
    /\ ENABLED (CleanupCall /\ DOMAIN sessions' # DOMAIN sessions /\ sessions' # << >>)

\* what the store holds: the sessions and the counter of all messages
StoreUnchanged == sessions' = sessions /\ total_messages' = total_messages

\* C29: get_messages called with an empty session id or one of more than
\* MaxSessionIdLen characters raises the ValueError of the session id,
\* creates no session and changes none; so does add_message (which raises an
\* error of the role or the content first when these are invalid too).
C29_InvalidSessionIdRejected ==
    [][\A sid \in {EmptySid, LongSid} :
          /\ GetMessagesCall(sid) =>
                /\ result' = (IF sid = EmptySid THEN InvalidSessionId ELSE SessionIdTooLong)
                /\ StoreUnchanged
          /\ \A role \in CallerRoles, content \in CallerContents :
                AddMessageCall(sid, role, content) =>
                   /\ result' \in {InvalidSessionId, SessionIdTooLong, InvalidRole, EmptyContent}
                   /\ (role \in Roles /\ content # EmptyText) =>
                         result' = (IF sid = EmptySid THEN InvalidSessionId
                                    ELSE SessionIdTooLong)
                   /\ StoreUnchanged]_vars

\* a call with a session id that is too long was refused while the store
\* held a session with a message
C29_LongSessionIdRefused ==
    /\ result = SessionIdTooLong
    /\ \E sid \in DOMAIN sessions : sessions[sid].messages # << >>
    /\ DOMAIN sessions \subseteq SessionIds

\* C30: add_message called with a role other than user and assistant raises the
\* ValueError of the role, called with an empty text that of the content, and
\* in both cases the sessions and the counters are as before the call.
C30_InvalidMessageRejected ==
    [][\A sid \in CallerSids, role \in CallerRoles, content \in CallerContents :
          ((role \notin Roles \/ content = EmptyText) /\ AddMessageCall(sid, role, content)) =>
             /\ role \notin Roles => result' = InvalidRole
             /\ (role \in Roles /\ content = EmptyText) => result' = EmptyContent
             /\ StoreUnchanged]_vars

\* a message with an invalid role was refused while the store held one
\* session with a message
C30_InvalidRoleRefused ==
    /\ result = InvalidRole
    /\ Cardinality(DOMAIN sessions) = 1
    /\ \E sid \in DOMAIN sessions : sessions[sid].messages # << >>

\* the words of a text: its maximal runs of characters without a blank
Words(text) ==
    {SubSeq(text, i, j) : i \in 1..Len(text), j \in 1..Len(text)} \cap
    {w \in Seq({text[k] : k \in 1..Len(text)} \ {" "}) :
        /\ w # << >>
        /\ \E i \in 1..Len(text) :
              /\ i + Len(w) - 1 <= Len(text)
              /\ SubSeq(text, i, i + Len(w) - 1) = w
              /\ (i = 1 \/ text[i - 1] = " ")
              /\ (i + Len(w) - 1 = Len(text) \/ text[i + Len(w)] = " ")}

\* C21: when the agent searches for a question asked after an earlier turn,
\* the query it searches with contains a word of the chat history that the
\* question itself does not contain.
C21_FollowUpQueryUsesHistory ==
    (last.op = "agent" /\ last.searched /\ last.chat_history # << >>) =>
        \E i \in 1..Len(last.chat_history) :
            \E w \in Words(last.chat_history[i].content) :
                /\ Contains(last.query, w)
                /\ ~ Contains(last.question, w)

\* C22: when the agent searches for a question asked without chat history,
\* the query it searches with is the question, character for character.
C22_QueryIsQuestionWithoutHistory ==
    (last.op = "agent" /\ last.searched /\ last.chat_history = << >>) =>
        last.query = last.question

\* the message that would tell the LLM that the search found nothing
NoArticlesMarker == [kind |-> "no_relevant_articles"]

\* C23: when the agent searched and the search returned no document, the
\* message list handed to the LLM contains a "no relevant articles" message.
C23_EmptySearchIsAnnounced ==
    (last.op = "agent" /\ last.searched /\ last.documents = << >>) =>
        \E i \in 1..Len(last.messages) : last.messages[i] = NoArticlesMarker

C25_InvalidQuestionRefusedBeforeStream ==
    [][\A r \in Requests :
          /\ (req[r].pc = "idle" /\ req'[r].pc # "idle") =>
                \A question \in {EmptyText, TooLong}, sid \in AskedSids,
                   verdict \in BOOLEAN :
                    AskQuestion(r, question, sid, verdict) =>
                        /\ req'[r].pc \in {"string_too_short", "string_too_long"}
                        /\ req'[r].frames = << >>
                        /\ ~ req'[r].llm_invoked
                        /\ UNCHANGED <<sessions, total_messages, indexVars>>
          /\ req[r].pc \in {"string_too_short", "string_too_long"} =>
                req'[r] = req[r]]_vars

\* a question of 501 characters was refused while a session holds the turn
\* of another request
C25_TooLongRefusedBesideStoredTurn ==
    \E r \in Requests :
        /\ req[r].pc = "string_too_long"
        /\ req[r].frames = << >>
        /\ \E sid \in DOMAIN sessions : sessions[sid].messages # << >>

\* C26: a request whose question is not blank and has at most 500
\* characters, and in which moderation finds nothing, is answered with a
\* stream, whatever its length: "Hi" included.
C26_ShortQuestionsAreStreamed ==
    [][\A r \in Requests :
          (req[r].pc = "idle" /\ req'[r].pc # "idle") =>
              \A question \in AskedQuestions, sid \in AskedSids :
                  (/\ strip(question) # EmptyText
                   /\ Len(question) <= MAX_QUESTION_LENGTH
                   /\ AskQuestion(r, question, sid, TRUE))
                  => req'[r].pc = "start"]_vars

\* what a clear_session(sid) step leaves behind, apart from the history read
\* afterwards: nothing raised, nothing changed when sid was absent, sid gone,
\* the other sessions as they were, and a second clear changing nothing
ClearedOnce(sid) ==
    LET again == clear_session(sessions', total_messages', sid)
    IN  /\ result' = "ok"
        /\ sid \notin DOMAIN sessions =>
              (sessions' = sessions /\ total_messages' = total_messages)
        /\ DOMAIN sessions' = DOMAIN sessions \ {sid}
        /\ \A k \in DOMAIN sessions' : sessions'[k] = sessions[k]
        /\ again.sessions = sessions' /\ again.total = total_messages'

\* C31 as stated: clear_session is idempotent, leaves the other sessions
\* alone, and a get_messages on the cleared id afterwards always returns a
\* fresh empty history.
C31_ClearThenFreshHistory ==
    [][\A sid \in SessionIds :
          ClearSessionCall(sid) =>
              LET g == get_messages(sessions', total_messages', sid, now')
              IN  /\ ClearedOnce(sid)
                  /\ g.outcome = "ok"
                  /\ g.sessions[sid] = SessionData(now')]_vars

\* C31, amended: clear_session is idempotent and leaves the other sessions
\* alone; a get_messages on the cleared id afterwards returns a fresh empty
\* history, except that it raises the capacity error when the id was absent
\* already and the store is full of sessions that have not expired.
C31_ClearIsIdempotent ==
    [][\A sid \in SessionIds :
          ClearSessionCall(sid) =>
              LET g == get_messages(sessions', total_messages', sid, now')
                  swept == cleanup_expired_sessions(sessions', total_messages', now')
              IN  /\ ClearedOnce(sid)
                  /\ IF /\ sid \notin DOMAIN sessions
                        /\ get_session_count(swept.sessions) >= max_total_sessions
                     THEN g.outcome = "RuntimeError"
                     ELSE /\ g.outcome = "ok"
                          /\ g.sessions[sid] = SessionData(now')]_vars

\* a session holding messages can be cleared while another session exists
C31_ClearOneOfTwo ==
    /\ DOMAIN sessions = {1, 2}
    /\ sessions[1].messages # << >>
    /\ sessions[2].messages # << >>
    /\ ENABLED (ClearSessionCall(1) /\ DOMAIN sessions' = {2}
                /\ total_messages' < total_messages)

\* the list objects agree with the histories of the store
ListsFollowStore ==
    /\ DOMAIN messages_of = DOMAIN sessions
    /\ \A sid \in DOMAIN sessions : lists[messages_of[sid]] = sessions[sid].messages

\* C32: while its session exists, the list that get_messages returned shows
\* the session's current history, whatever add_message did since.
C32_ReturnedListIsLive ==
    (held # NoList /\ held.sid \in DOMAIN sessions) =>
        lists[held.ref] = sessions[held.sid].messages

\* C33: in a turn whose question should_search refuses, the index is never
\* queried, the sources frame carries the empty list, and the generation
\* runs: the LLM is invoked once the sources are sent.
C33_NoSearchWhenNotNeeded ==
    \A r \in Requests :
        (req[r].pc \notin {"idle", "rejected"} /\ ~ should_search(req[r].question)) =>
            /\ req[r].search_calls = 0
            /\ \A i \in 1..Len(req[r].frames) :
                  req[r].frames[i].type = "sources" => req[r].frames[i] = SourcesFrame(<< >>)
            /\ req[r].pc = "sources" => ENABLED GenStart(r)
            /\ req[r].pc \in {"streaming", "exhausted", "done"} => req[r].llm_invoked

\* a greeting asked on a session with an earlier turn was answered without a
\* search: empty sources, content, done
C33_GreetingAnsweredFromHistory ==
    \E r \in Requests :
        /\ req[r].pc = "done"
        /\ req[r].question = Hello
        /\ req[r].search_calls = 0
        /\ Head(req[r].frames) = SourcesFrame(<< >>)
        /\ req[r].llm_invoked
        /\ req[r].chunk_count > 0
        /\ req[r].session_id \in DOMAIN sessions
        /\ sessions[req[r].session_id].message_count > 2

\* the chunks carried by the content frames of a stream, concatenated in order
RECURSIVE ContentOf(_)
ContentOf(frames) ==
    IF frames = << >> THEN EmptyText
    ELSE IF Head(frames).type = "content"
    THEN Head(frames).data \o ContentOf(Tail(frames))
    ELSE ContentOf(Tail(frames))

\* C34: a stream grows by one frame at a time, at its end; a chunk that is
\* not empty is forwarded as one content frame and an empty chunk as none; no
\* content frame carries an empty chunk; the text accumulated for the turn is
\* the concatenation, in order, of the chunks of the content frames; and the
\* assistant message stored at the end of the turn holds that text.
C34_ChunksForwardedAndAccumulated ==
    [][\A r \in Requests :
          LET old == req[r].frames
              new == req'[r].frames
              sid == req[r].session_id
          IN  /\ Len(new) \in {Len(old), Len(old) + 1}
              /\ SubSeq(new, 1, Len(old)) = old
              /\ \A chunk \in LLMChunks :
                    (req[r].pc = "streaming" /\ LLMChunk(r, chunk)) =>
                        new = IF chunk = EmptyText THEN old
                              ELSE Append(old, ContentFrame(chunk))
              /\ \A i \in 1..Len(new) :
                    new[i].type = "content" => new[i].data # EmptyText
              /\ ContentOf(new) = req'[r].full_response
              /\ req'[r].chunk_count =
                    Cardinality({i \in 1..Len(new) : new[i].type = "content"})
              /\ (/\ req[r].pc \in {"streaming", "exhausted"}
                  /\ req'[r].pc = "done"
                  /\ sid # EmptySid
                  /\ req[r].full_response # EmptyText)
                 => LET m == sessions'[sid].messages
                    IN  m[Len(m)] = Message("assistant", ContentOf(new))]_vars

\* a stream of two different chunks ended, and its session holds their
\* concatenation as the assistant message
C34_TwoChunksStored ==
    \E r \in Requests :
        /\ req[r].pc = "done"
        /\ req[r].chunk_count = 2
        /\ req[r].full_response = <<"a">> \o ErrorText
        /\ req[r].session_id \in DOMAIN sessions
        /\ LET m == sessions[req[r].session_id].messages
           IN  m # << >> /\ m[Len(m)] = Message("assistant", req[r].full_response)

\* C35: at the step that sends the done frame of a stream with a session id
\* and at least one content chunk, the history of the session already ends
\* with the user message of the turn followed by its assistant message.
C35_DoneAfterPersisted ==
    [][\A r \in Requests :
          (/\ req'[r].frames # req[r].frames
           /\ req'[r].frames[Len(req'[r].frames)] = DoneFrame
           /\ req[r].session_id # EmptySid
           /\ req[r].chunk_count >= 1)
          => /\ req[r].session_id \in DOMAIN sessions'
             /\ LET m == sessions'[req[r].session_id].messages
                IN  /\ Len(m) >= 2
                    /\ m[Len(m) - 1] = Message("user", req[r].question)
                    /\ m[Len(m)] = Message("assistant", req[r].full_response)]_vars

\* the done frame of a second turn on a session was sent, and the session's
\* history is that turn
C35_SecondTurnDone ==
    \E r \in Requests :
        /\ req[r].frames # << >>
        /\ req[r].frames[Len(req[r].frames)] = DoneFrame
        /\ req[r].question = BtcEtf
        /\ req[r].chunk_count = 1
        /\ req[r].session_id \in DOMAIN sessions
        /\ sessions[req[r].session_id].message_count = 4
        /\ sessions[req[r].session_id].messages =
              <<Message("user", BtcEtf), Message("assistant", req[r].full_response)>>

\* the ids of a result list, in its order
IdsOf(results) == [i \in 1..Len(results) |-> results[i].id]

\* C36: the documents listed in the sources frame of a turn are the documents
\* placed in the context of the LLM: the same ids in the same order.
C36_SourcesAreTheContext ==
    last.op = "turn" => IdsOf(last.sources) = IdsOf(last.documents)



\* C37: a sweep removes no session that is unexpired when the sweep deletes it
\* (its last access is within the timeout of the time the sweep works with),
\* and the count a sweep returns is the number of sessions it deleted.
C37_SweepKeepsAccessedSessions ==
    [][\A t \in Threads :
         /\ SwRemove(t) =>
               LET sid == th[t].expired_ids[th[t].j]
               IN  sid \in DOMAIN store =>
                     (th[t].swept_now - heap[store[sid]].last_accessed)
                        > session_timeout_minutes
         /\ SwReturn(t) => th'[t].returned = th[t].deleted]_vars


\* the messages stored for sid in the store S (none when sid has no session)
StoredMessages(S, sid) == IF sid \in DOMAIN S THEN S[sid].messages ELSE << >>

\* C38: a turn in which the generation raised stores nothing: when the stream
\* of such a turn ends, every session holds the messages it held before, so no
\* assistant message with the error text is stored.
C38_FailedGenerationStoresNothing ==
    [][\A r \in Requests :
         (req[r].pc = "exhausted" /\ req'[r].pc \in {"done", "failed"}) =>
            \A sid \in AllSids :
               StoredMessages(sessions', sid) = StoredMessages(sessions, sid)]_vars


\* C39: on a service whose load_index succeeded on the collection as it is now,
\* the collection holding n >= 1 documents (one point for each), a search with
\* top_k >= 1 asks the vector store for at least min(top_k, n) candidates.
C39_CandidateWindowCoversTopK ==
    [][\A top_k \in TopKs, check_ok \in BOOLEAN, env \in LoadEnvs,
          window \in Windows(ArticleIds, IndexScores, MaxCopies) :
         LET n == get_collection_point_count(qdrant, TRUE)
         IN  (/\ last'.op = "search"
              /\ svc.ready /\ svc.vectorstore /\ qdrant.exists
              /\ n >= 1 /\ svc.index_point_count = n
              /\ \A a \in ArticleIds : qdrant.points[a] <= 1
              /\ SearchCall(top_k, check_ok, env, window)) =>
                search(svc, qdrant, ids_file, corpus, top_k, NoDate,
                       check_ok, env, window).k >= MinOf(top_k, n)]_vars

====
